---- MODULE Spec2Model ----
(***************************************************************************)
(* Volleyball match scorekeeper: the match state store with its undo/redo  *)
(* history (App), the interaction state machine, manual score adjustment,  *)
(* substitution and rotation handlers (GameView), the trajectory drawing   *)
(* surface (Court) and the start validation of the setup form (SetupView). *)
(*                                                                         *)
(* Every React event handler is one action.  A handler runs against the    *)
(* values of the render it was created in and React re-renders before the  *)
(* next discrete event is dispatched, so each action reads the unprimed    *)
(* variables and all its setState calls take effect together.  Effects     *)
(* that run after the re-render a handler causes are part of its action.   *)
(*                                                                         *)
(* Encodings.  null/undefined is <<>> for objects (coordinates, points,    *)
(* targets), "null" for nullable enumerations and NoPos for a position.    *)
(* A Point of the 18x9 court is <<2x, 2y>> (half units, so the zone        *)
(* centres x.5 are integers); a stored Coordinate is <<9*x%, 9*y%>>        *)
(* (ninths of a percent, so that x/18*100 is an integer).                  *)
(* LogEntry.id and LogEntry.timestamp (Date.now()) are not modelled.       *)
(* The user's pointers are part of the state: held is the set of sidebar   *)
(* slots a finger or the mouse button is down on.  A stored blob is given  *)
(* by what JSON.parse makes of it.                                         *)
(***************************************************************************)
EXTENDS Integers, Sequences, FiniteSets, TLC

\* ------------------------------------------------------------- bounds
\* Mutating actions are accepted only while the past stack is shorter.
MaxHistory == 2
\* Long-press timers that may be pending at once.
MaxTimers == 2
\* Entries of the ledgers a match is resumed with (SpecStats).
MaxLedger == 2

\* ---------------------------------------------------------- vocabulary
Sides == {"me", "op"}
NoPos == 0
PosL == 7
Positions == 1..6
ActionTypes == {"Serve", "Attack", "Block", "Dig", "Set", "Receive"}
ResultTypes == {"Point", "Error", "Normal"}
DefaultMyName == "MyTeamDefault"
DefaultOpName == "OpTeamDefault"

\* String.prototype.trim on the strings the inputs below can produce.
Trim(s) == IF s \in {"", " ", "  "} THEN "" ELSE s

getInitialLineup == [p \in Positions |-> ""]
getInitialRoles == [p \in Positions |-> "?"]
getInitialConfig == [matchName |-> "", myName |-> "", opName |-> ""]

\* --------------------------------------------------------------- inputs
\* Sidebar slots the user presses, actions picked, court points touched,
\* jersey numbers typed into the substitution dialog.
PressPositions == {1}
ActionInputs == {"Attack"}
PointInputs == {<<24, 6>>}
SubNumberInputs == {"7"}

\* handleTestFill's form contents (team and match names transliterated); the
\* first serve is the form's default.
TestFillForm ==
    [matchName |-> "G1", myName |-> "Home", opName |-> "Away",
     myLineup |-> [p \in Positions |-> <<"1", "2", "3", "4", "5", "6">>[p]],
     opLineup |-> [p \in Positions |-> <<"11", "12", "13", "14", "15", "16">>[p]],
     myRoles |-> [p \in Positions |-> <<"S", "OH", "MB", "OP", "OH", "MB">>[p]],
     opRoles |-> [p \in Positions |-> <<"OH", "MB", "OP", "S", "MB", "OH">>[p]],
     myLibero |-> "99", opLibero |-> "88", firstServe |-> "me"]

\* A form typed by hand: blank team names, no roles, no liberos, opponent serves.
ManualForm ==
    [matchName |-> "", myName |-> " ", opName |-> "",
     myLineup |-> [p \in Positions |-> <<"3", "1", "4", "2", "9", "8">>[p]],
     opLineup |-> [p \in Positions |-> <<"1", "2", "3", "4", "5", "6">>[p]],
     myRoles |-> getInitialRoles, opRoles |-> getInitialRoles,
     myLibero |-> "", opLibero |-> "", firstServe |-> "op"]

\* Forms the validation rejects: an empty slot, a libero duplicating a starter.
EmptySlotForm == [TestFillForm EXCEPT !.opLineup[4] = ""]
DuplicateForm == [TestFillForm EXCEPT !.myLibero = "3"]

SetupForms == {TestFillForm, EmptySlotForm, DuplicateForm}

\* ------------------------------------------------------------ variables
VARIABLES
    \* App
    view, isGameActive, teamConfig,
    currentSet, mySetWins, opSetWins, myLineup, opLineup, myRoles, opRoles,
    myLibero, opLibero, myScore, opScore, servingTeam, logs,
    history, future,
    \* GameView
    state, activeSide, selectedPos, selectedAction, startCoord, endCoord,
    showSubModal, subNumber, subTarget,
    longPressTimer, isLongPress, timers,
    \* the pointers of the user
    held,
    \* Court
    startPos, endPos, dragMode,
    \* the browser's storage: <<>>, or <<blob>> with the blob saved under the
    \* save key
    localStorage

gameVars == <<currentSet, mySetWins, opSetWins, myLineup, opLineup, myRoles, opRoles,
              myLibero, opLibero, myScore, opScore, servingTeam, logs>>
appVars == <<view, isGameActive, teamConfig, localStorage, gameVars, history, future>>
flowVars == <<state, activeSide, selectedPos, selectedAction, startCoord, endCoord>>
subVars == <<showSubModal, subNumber, subTarget>>
pressVars == <<longPressTimer, isLongPress, timers, held>>
courtVars == <<startPos, endPos, dragMode>>
viewVars == <<flowVars, subVars, pressVars, courtVars>>
vars == <<appVars, viewVars>>

\* ------------------------------------------------------------ the store
getCurrentState ==
    [currentSet |-> currentSet, mySetWins |-> mySetWins, opSetWins |-> opSetWins,
     myLineup |-> myLineup, opLineup |-> opLineup,
     myRoles |-> myRoles, opRoles |-> opRoles,
     myLibero |-> myLibero, opLibero |-> opLibero,
     myScore |-> myScore, opScore |-> opScore,
     servingTeam |-> servingTeam, logs |-> logs]

\* The thirteen setters, given the GameState they are called with.
SetGameState(s) ==
    /\ currentSet' = s.currentSet
    /\ mySetWins' = s.mySetWins
    /\ opSetWins' = s.opSetWins
    /\ myLineup' = s.myLineup
    /\ opLineup' = s.opLineup
    /\ myRoles' = s.myRoles
    /\ opRoles' = s.opRoles
    /\ myLibero' = s.myLibero
    /\ opLibero' = s.opLibero
    /\ myScore' = s.myScore
    /\ opScore' = s.opScore
    /\ servingTeam' = s.servingTeam
    /\ logs' = s.logs

\* GameView and Court as mounted: useState/useRef initial values; the Court
\* effect runs on mount with state IDLE.  Timers of an unmounted GameView
\* only touch that instance and are dropped, and a pointer held on one of its
\* sidebar slots has no element left to be released on.
MountGameView ==
    /\ state' = "IDLE"
    /\ activeSide' = "me"
    /\ selectedPos' = NoPos
    /\ selectedAction' = "null"
    /\ startCoord' = <<>>
    /\ endCoord' = <<>>
    /\ showSubModal' = FALSE
    /\ subNumber' = ""
    /\ subTarget' = <<>>
    /\ longPressTimer' = "null"
    /\ isLongPress' = FALSE
    /\ timers' = <<>>
    /\ held' = {}
    /\ startPos' = <<>>
    /\ endPos' = <<>>
    /\ dragMode' = "null"

Init ==
    /\ view = "setup"
    /\ isGameActive = FALSE
    /\ teamConfig = getInitialConfig
    /\ currentSet = 1
    /\ mySetWins = 0
    /\ opSetWins = 0
    /\ myLineup = getInitialLineup
    /\ opLineup = getInitialLineup
    /\ myRoles = getInitialRoles
    /\ opRoles = getInitialRoles
    /\ myLibero = ""
    /\ opLibero = ""
    /\ myScore = 0
    /\ opScore = 0
    /\ servingTeam = "me"
    /\ logs = <<>>
    /\ history = <<>>
    /\ future = <<>>
    /\ state = "IDLE"
    /\ activeSide = "me"
    /\ selectedPos = NoPos
    /\ selectedAction = "null"
    /\ startCoord = <<>>
    /\ endCoord = <<>>
    /\ showSubModal = FALSE
    /\ subNumber = ""
    /\ subTarget = <<>>
    /\ longPressTimer = "null"
    /\ isLongPress = FALSE
    /\ timers = <<>>
    /\ held = {}
    /\ startPos = <<>>
    /\ endPos = <<>>
    /\ dragMode = "null"
    /\ localStorage = <<>>

\* ------------------------------------------------ history manager (App)
HistoryRoom == Len(history) < MaxHistory

\* history, future and the current GameState as one value
World == [cur |-> getCurrentState, hist |-> history, fut |-> future]

\* Faulty variants of pushHistory: one that pushes nothing (C3 fails with
\* it), one that keeps the future (C4 fails with it).
pushHistoryWithoutSnapshot ==
    /\ history' = history
    /\ future' = <<>>

pushHistoryKeepingFuture ==
    /\ history' = Append(history, getCurrentState)
    /\ future' = future

\* pushHistory: snapshot of the render's state appended, future cleared.
pushHistory ==
    /\ history' = Append(history, getCurrentState)
    /\ future' = <<>>

\* Faulty variant of RestoredState: a partial restoration that leaves the
\* serving team as it is (C1 fails with it).
RestoredStateKeepingServe(target) == [target EXCEPT !.servingTeam = servingTeam]

\* What the thirteen setters of handleUndo / handleRedo are given.  The
\* `|| getInitialRoles()` fallbacks apply to a snapshot without roles, which
\* getCurrentState never produces.
RestoredState(target) ==
    [currentSet |-> target.currentSet,
     mySetWins |-> target.mySetWins,
     opSetWins |-> target.opSetWins,
     myLineup |-> target.myLineup,
     opLineup |-> target.opLineup,
     myRoles |-> target.myRoles,
     opRoles |-> target.opRoles,
     myLibero |-> target.myLibero,
     opLibero |-> target.opLibero,
     myScore |-> target.myScore,
     opScore |-> target.opScore,
     servingTeam |-> target.servingTeam,
     logs |-> target.logs]

\* Faulty variant of UndoResult: with an empty past the current state is
\* still pushed onto the future (C25 fails with it).
UndoResultWithoutEmptyCheck(w) ==
    IF Len(w.hist) = 0 THEN [w EXCEPT !.fut = <<w.cur>> \o w.fut]
    ELSE [cur |-> RestoredState(w.hist[Len(w.hist)]),
          hist |-> SubSeq(w.hist, 1, Len(w.hist) - 1),
          fut |-> <<w.cur>> \o w.fut]

\* handleUndo as a function of the stacks and the current state
UndoResult(w) ==
    IF Len(w.hist) = 0 THEN w
    ELSE [cur |-> RestoredState(w.hist[Len(w.hist)]),
          hist |-> SubSeq(w.hist, 1, Len(w.hist) - 1),
          fut |-> <<w.cur>> \o w.fut]

\* Faulty variant of RedoResult: the past is replaced, not extended (C2 fails
\* with it).
RedoResultLosingPast(w) ==
    IF Len(w.fut) = 0 THEN w
    ELSE [cur |-> RestoredState(w.fut[1]), hist |-> <<w.cur>>, fut |-> Tail(w.fut)]

\* handleRedo as a function of the stacks and the current state
RedoResult(w) ==
    IF Len(w.fut) = 0 THEN w
    ELSE [cur |-> RestoredState(w.fut[1]),
          hist |-> Append(w.hist, w.cur),
          fut |-> Tail(w.fut)]

SetWorld(w) ==
    /\ SetGameState(w.cur)
    /\ history' = w.hist
    /\ future' = w.fut

\* Undo button of the GameView header
handleUndo ==
    /\ view = "game"
    /\ SetWorld(UndoResult(World))
    /\ UNCHANGED <<view, isGameActive, teamConfig, localStorage, viewVars>>

\* Redo button of the GameView header
handleRedo ==
    /\ view = "game"
    /\ SetWorld(RedoResult(World))
    /\ UNCHANGED <<view, isGameActive, teamConfig, localStorage, viewVars>>

\* ------------------------------------------------------ handleGameAction
\* Faulty variant of AppendLog: the newest entry is put first (C14 fails with
\* it).
PrependLog(ledger, newLog) == <<[newLog EXCEPT !.setNumber = currentSet]>> \o ledger

\* setLogs(prev => [...prev, { ...newLog, setNumber: currentSet }])
AppendLog(ledger, newLog) == Append(ledger, [newLog EXCEPT !.setNumber = currentSet])

\* newLog, scoreUpdate, lineupUpdate: <<>> for null, <<v>> otherwise;
\* lineupUpdate.newLibero: <<>> for undefined; newServingTeam: "null" or a side.
handleGameAction(newLog, scoreUpdate, lineupUpdate, newServingTeam) ==
    /\ pushHistory
    /\ logs' = IF newLog # <<>> THEN AppendLog(logs, newLog[1]) ELSE logs
    /\ myScore' = IF scoreUpdate # <<>> THEN myScore + scoreUpdate[1].myDelta ELSE myScore
    /\ opScore' = IF scoreUpdate # <<>> THEN opScore + scoreUpdate[1].opDelta ELSE opScore
    /\ myLineup' = IF lineupUpdate # <<>> /\ lineupUpdate[1].isMyTeam
                   THEN lineupUpdate[1].newLineup ELSE myLineup
    /\ myLibero' = IF lineupUpdate # <<>> /\ lineupUpdate[1].isMyTeam
                      /\ lineupUpdate[1].newLibero # <<>>
                   THEN lineupUpdate[1].newLibero[1] ELSE myLibero
    /\ opLineup' = IF lineupUpdate # <<>> /\ ~lineupUpdate[1].isMyTeam
                   THEN lineupUpdate[1].newLineup ELSE opLineup
    /\ opLibero' = IF lineupUpdate # <<>> /\ ~lineupUpdate[1].isMyTeam
                      /\ lineupUpdate[1].newLibero # <<>>
                   THEN lineupUpdate[1].newLibero[1] ELSE opLibero
    /\ servingTeam' = IF newServingTeam # "null" THEN newServingTeam ELSE servingTeam
    /\ UNCHANGED <<currentSet, mySetWins, opSetWins, myRoles, opRoles>>
    /\ UNCHANGED <<view, isGameActive, teamConfig, localStorage>>

\* ------------------------------------------------- match life cycle (App)
\* Faulty variant of handleNextSet: a tie is credited to my team (C17 fails
\* with it).
handleNextSetCreditingTies ==
    /\ view = "game"
    /\ Len(history) < MaxHistory
    /\ pushHistory
    /\ mySetWins' = IF myScore >= opScore THEN mySetWins + 1 ELSE mySetWins
    /\ opSetWins' = IF opScore > myScore THEN opSetWins + 1 ELSE opSetWins
    /\ currentSet' = currentSet + 1
    /\ view' = "setup"
    /\ MountGameView
    /\ UNCHANGED <<myLineup, opLineup, myRoles, opRoles, myLibero, opLibero,
                   myScore, opScore, servingTeam, logs, isGameActive, teamConfig, localStorage>>

\* Faulty variant of handleNextSet: the set is credited to both teams unless
\* it is tied (C39 fails with it).
handleNextSetCreditingBoth ==
    /\ view = "game"
    /\ HistoryRoom
    /\ pushHistory
    /\ mySetWins' = IF myScore # opScore THEN mySetWins + 1 ELSE mySetWins
    /\ opSetWins' = IF myScore # opScore THEN opSetWins + 1 ELSE opSetWins
    /\ currentSet' = currentSet + 1
    /\ view' = "setup"
    /\ MountGameView
    /\ UNCHANGED <<myLineup, opLineup, myRoles, opRoles, myLibero, opLibero,
                   myScore, opScore, servingTeam, logs, isGameActive, teamConfig, localStorage>>

\* "Next Set" of the options menu: the view changes to setup, which unmounts
\* the GameView.
handleNextSet ==
    /\ view = "game"
    /\ HistoryRoom
    /\ pushHistory
    /\ mySetWins' = IF myScore > opScore THEN mySetWins + 1 ELSE mySetWins
    /\ opSetWins' = IF ~(myScore > opScore) /\ opScore > myScore
                    THEN opSetWins + 1 ELSE opSetWins
    /\ currentSet' = currentSet + 1
    /\ view' = "setup"
    /\ MountGameView
    /\ UNCHANGED <<myLineup, opLineup, myRoles, opRoles, myLibero, opLibero,
                   myScore, opScore, servingTeam, logs, isGameActive, teamConfig, localStorage>>

\* Home button / "back to home" of the options menu
handleHome ==
    /\ view = "game"
    /\ view' = "setup"
    /\ MountGameView
    /\ UNCHANGED <<isGameActive, teamConfig, localStorage, gameVars, history, future>>

\* "Resume" of the setup footer, rendered while a game is active
handleResumeGame ==
    /\ view = "setup"
    /\ isGameActive
    /\ view' = "game"
    /\ UNCHANGED <<isGameActive, teamConfig, localStorage, gameVars, history, future, viewVars>>

\* Faulty variant of handleNewMatch: the scores survive the reset (C38 fails
\* with it).
handleNewMatchKeepingScores ==
    /\ view = "setup"
    /\ isGameActive
    /\ teamConfig' = getInitialConfig
    /\ UNCHANGED localStorage
    /\ myLineup' = getInitialLineup
    /\ opLineup' = getInitialLineup
    /\ myRoles' = getInitialRoles
    /\ opRoles' = getInitialRoles
    /\ myLibero' = ""
    /\ opLibero' = ""
    /\ currentSet' = 1
    /\ mySetWins' = 0
    /\ opSetWins' = 0
    /\ logs' = <<>>
    /\ history' = <<>>
    /\ future' = <<>>
    /\ isGameActive' = FALSE
    /\ view' = "setup"
    /\ UNCHANGED <<myScore, opScore, servingTeam, viewVars>>

\* executeReset -> onNewMatch: the reset dialog is reachable only while a
\* game is active.  servingTeam has no setter call here.
handleNewMatch ==
    /\ view = "setup"
    /\ isGameActive
    /\ teamConfig' = getInitialConfig
    /\ UNCHANGED localStorage
    /\ myLineup' = getInitialLineup
    /\ opLineup' = getInitialLineup
    /\ myRoles' = getInitialRoles
    /\ opRoles' = getInitialRoles
    /\ myLibero' = ""
    /\ opLibero' = ""
    /\ currentSet' = 1
    /\ mySetWins' = 0
    /\ opSetWins' = 0
    /\ myScore' = 0
    /\ opScore' = 0
    /\ logs' = <<>>
    /\ history' = <<>>
    /\ future' = <<>>
    /\ isGameActive' = FALSE
    /\ view' = "setup"
    /\ UNCHANGED <<servingTeam, viewVars>>

\* ------------------------------------------------------------ SetupView
Range(f) == {f[x] : x \in DOMAIN f}

\* Faulty variant of getDuplicates: the libero is left out (C27 fails with it).
getDuplicatesAmongStarters(lineup, libero) ==
    LET filled == {p \in Positions : Trim(lineup[p]) # ""}
    IN {lineup[p] : p \in {q \in filled : \E r \in filled : r # q /\ lineup[r] = lineup[q]}}

\* getDuplicates: the jersey numbers occurring twice among the six slots and
\* the libero, blanks left out
getDuplicates(lineup, libero) ==
    LET filled == {p \in Positions : Trim(lineup[p]) # ""}
    IN {lineup[p] : p \in {q \in filled :
                             \/ \E r \in filled : r # q /\ lineup[r] = lineup[q]
                             \/ Trim(libero) # "" /\ libero = lineup[q]}}

hasEmptyFields(lineup) == \E p \in Positions : Trim(lineup[p]) = ""

\* The validation effect's message, by kind; "null" when the form is valid.
errorMsg(form) ==
    IF hasEmptyFields(form.myLineup) THEN "myEmpty"
    ELSE IF hasEmptyFields(form.opLineup) THEN "opEmpty"
    ELSE IF getDuplicates(form.myLineup, form.myLibero) # {} THEN "myDups"
    ELSE IF getDuplicates(form.opLineup, form.opLibero) # {} THEN "opDups"
    ELSE "null"

handleGameStart(config, initialMyLineup, initialOpLineup, initialMyRoles, initialOpRoles, initialMyLibero, initialOpLibero, initialServingTeam) ==
    /\ teamConfig' = config
    /\ UNCHANGED localStorage
    /\ myLineup' = initialMyLineup
    /\ opLineup' = initialOpLineup
    /\ myRoles' = initialMyRoles
    /\ opRoles' = initialOpRoles
    /\ myLibero' = initialMyLibero
    /\ opLibero' = initialOpLibero
    /\ myScore' = 0
    /\ opScore' = 0
    /\ servingTeam' = initialServingTeam
    /\ history' = <<>>
    /\ future' = <<>>
    /\ view' = "game"
    /\ isGameActive' = TRUE
    /\ UNCHANGED <<currentSet, mySetWins, opSetWins, logs>>

\* Start button of the setup footer, rendered while no game is active
startGame(form) ==
    /\ view = "setup"
    /\ ~isGameActive
    /\ IF errorMsg(form) # "null"
       THEN UNCHANGED vars
       ELSE /\ handleGameStart(
                 [matchName |-> form.matchName,
                  myName |-> IF Trim(form.myName) # "" THEN Trim(form.myName)
                             ELSE DefaultMyName,
                  opName |-> IF Trim(form.opName) # "" THEN Trim(form.opName)
                             ELSE DefaultOpName],
                 form.myLineup, form.opLineup, form.myRoles, form.opRoles,
                 form.myLibero, form.opLibero, form.firstServe)
            /\ UNCHANGED viewVars

\* ------------------------------------------------- GameView: game actions
\* Faulty variants of getRotatedLineup: the rotation run backwards (C9 fails
\* with it), and a rotation of positions 1..5 that leaves position 6 alone
\* (C10 fails with it).
getRotatedLineupBackwards(lineup) ==
    [p \in Positions |-> IF p = 1 THEN lineup[6] ELSE lineup[p - 1]]

getRotatedLineupFiveCycle(lineup) ==
    [p \in Positions |-> IF p = 6 THEN lineup[6]
                         ELSE IF p = 5 THEN lineup[1] ELSE lineup[p + 1]]

getRotatedLineup(lineup) ==
    [p \in Positions |-> IF p = 6 THEN lineup[1] ELSE lineup[p + 1]]

LineupOf(side) == IF side = "me" THEN myLineup ELSE opLineup
LiberoOf(side) == IF side = "me" THEN myLibero ELSE opLibero
ScoreOf(side) == IF side = "me" THEN myScore ELSE opScore
Other(side) == IF side = "me" THEN "op" ELSE "me"

\* Faulty variant of handleRotation: the rotated team is given the serve as
\* well (C35 fails with it).
handleRotationTakingServe(isMyTeam) ==
    /\ view = "game"
    /\ HistoryRoom
    /\ LET currentLineup == IF isMyTeam THEN myLineup ELSE opLineup
           newLineup == getRotatedLineup(currentLineup)
       IN handleGameAction(<<>>, <<>>,
                           <<[isMyTeam |-> isMyTeam, newLineup |-> newLineup,
                              newLibero |-> <<>>]>>,
                           IF isMyTeam THEN "me" ELSE "op")
    /\ UNCHANGED viewVars

\* Rotation buttons of the court overlay
handleRotation(isMyTeam) ==
    /\ view = "game"
    /\ HistoryRoom
    /\ LET currentLineup == IF isMyTeam THEN myLineup ELSE opLineup
           newLineup == getRotatedLineup(currentLineup)
       IN handleGameAction(<<>>, <<>>,
                           <<[isMyTeam |-> isMyTeam, newLineup |-> newLineup,
                              newLibero |-> <<>>]>>,
                           "null")
    /\ UNCHANGED viewVars

\* Faulty variants of the side-out decision: service never changes hands (C6
\* fails with it); the point winner rotates on every point (C5 fails with it).
SideOutServeNever(pointWinner) == "null"

SideOutLineupOnEveryPoint(pointWinner) ==
    <<[isMyTeam |-> pointWinner = "me",
       newLineup |-> getRotatedLineup(LineupOf(pointWinner)),
       newLibero |-> <<>>]>>

\* The side-out decision shared by handleScoreAdjust and handleResult:
\* the new serving team ("null": service retained) for a point of pointWinner
SideOutServe(pointWinner) ==
    IF pointWinner # servingTeam THEN pointWinner ELSE "null"

\* ... and the lineup update that goes with it
SideOutLineup(pointWinner) ==
    IF pointWinner # servingTeam
    THEN <<[isMyTeam |-> pointWinner = "me",
            newLineup |-> getRotatedLineup(LineupOf(pointWinner)),
            newLibero |-> <<>>]>>
    ELSE <<>>

ManualNote(delta) == IF delta > 0 THEN "Manual Adjust +1" ELSE "Manual Adjust -1"

\* Faulty variants of the two definitions below: a check that lets a score
\* reach -1 (C11 fails with it); a scoreUpdate that forgets the team (C12
\* fails with it).
RejectsAdjustBelowMinusOne(currentScore, delta) == currentScore + delta < -1

AdjustScoreUpdateForBoth(isMyTeam, delta) == [myDelta |-> delta, opDelta |-> delta]

\* "Prevent negative score": the early return of handleScoreAdjust
RejectsAdjust(currentScore, delta) == currentScore + delta < 0

\* scoreUpdate of handleScoreAdjust
AdjustScoreUpdate(isMyTeam, delta) ==
    [myDelta |-> IF isMyTeam THEN delta ELSE 0,
     opDelta |-> IF ~isMyTeam THEN delta ELSE 0]

\* + / - of the score adjustment popover
handleScoreAdjust(isMyTeam, delta) ==
    /\ view = "game"
    /\ LET currentScore == IF isMyTeam THEN myScore ELSE opScore
           pointWinner == IF isMyTeam THEN "me" ELSE "op"
           scoreUpdate == AdjustScoreUpdate(isMyTeam, delta)
           newServingTeam == IF delta > 0 THEN SideOutServe(pointWinner) ELSE "null"
           lineupUpdate == IF delta > 0 THEN SideOutLineup(pointWinner) ELSE <<>>
           newLog == [setNumber |-> currentSet,
                      myScore |-> IF isMyTeam THEN myScore + delta ELSE myScore,
                      opScore |-> IF ~isMyTeam THEN opScore + delta ELSE opScore,
                      playerNumber |-> "",
                      position |-> 1,
                      action |-> "Attack",
                      quality |-> "Normal",
                      result |-> IF delta > 0 THEN "Point" ELSE "Normal",
                      startCoord |-> <<>>,
                      endCoord |-> <<>>,
                      note |-> ManualNote(delta),
                      servingTeam |-> IF newServingTeam # "null" THEN newServingTeam
                                      ELSE servingTeam]
       IN IF RejectsAdjust(currentScore, delta)
          THEN UNCHANGED vars
          ELSE /\ HistoryRoom
               /\ handleGameAction(<<newLog>>, <<scoreUpdate>>, lineupUpdate,
                                   newServingTeam)
               /\ UNCHANGED viewVars

\* ------------------------------------------------------------------ Court
\* normalize: SVG point (half units) to stored percentages (ninths of a percent)
normalize(pt) == <<pt[1] * 25, pt[2] * 50>>

\* getPositionCenter(side, pos) with ignoreAction = false, for the action prop
getPositionCenter(side, pos, action) ==
    LET posNum == IF pos = PosL THEN 6 ELSE pos
        me == CASE posNum = 4 -> <<15, 3>>
                [] posNum = 3 -> <<15, 9>>
                [] posNum = 2 -> <<15, 15>>
                [] posNum = 5 -> <<6, 3>>
                [] posNum = 6 -> <<6, 9>>
                [] posNum = 1 -> <<6, 15>>
                [] OTHER -> <<18, 9>>
        op == CASE posNum = 2 -> <<21, 3>>
                [] posNum = 3 -> <<21, 9>>
                [] posNum = 4 -> <<21, 15>>
                [] posNum = 1 -> <<30, 3>>
                [] posNum = 6 -> <<30, 9>>
                [] posNum = 5 -> <<30, 15>>
                [] OTHER -> <<18, 9>>
    IN IF side = "me"
       THEN IF action = "Serve" THEN <<-1, me[2]>> ELSE me
       ELSE IF action = "Serve" THEN <<37, op[2]>> ELSE op

\* getDistance(p1, p2) < HIT_RADIUS, squared, in half units
WithinHitRadius(p1, p2) ==
    (p1[1] - p2[1]) * (p1[1] - p2[1]) + (p1[2] - p2[2]) * (p1[2] - p2[2]) < 9

\* The auto-start effect, run after a render in which state, activeSide,
\* selectedPos or action changed: the values it leaves in startPos / endPos.
EffectStartPos(st, side, pos, action) ==
    IF st = "DRAWING" /\ pos # NoPos THEN getPositionCenter(side, pos, action)
    ELSE IF st = "IDLE" THEN <<>>
    ELSE startPos

EffectEndPos(st) == IF st = "IDLE" THEN <<>> ELSE endPos

\* -------------------------------------------- GameView: interaction flow
\* resetFlow's setters; the Court effect sees state IDLE.
resetFlow ==
    /\ state' = "IDLE"
    /\ selectedPos' = NoPos
    /\ selectedAction' = "null"
    /\ startCoord' = <<>>
    /\ endCoord' = <<>>
    /\ startPos' = EffectStartPos("IDLE", activeSide, NoPos, "null")
    /\ endPos' = EffectEndPos("IDLE")
    /\ UNCHANGED <<activeSide, dragMode>>

\* Backdrop and cancel button of the action picker (shown in PLAYER_SELECTED)
cancelFlow ==
    /\ view = "game"
    /\ state = "PLAYER_SELECTED"
    /\ resetFlow
    /\ UNCHANGED <<appVars, subVars, pressVars>>

handlePlayerSelect(side, pos) ==
    /\ activeSide' = side
    /\ selectedPos' = pos
    /\ state' = "PLAYER_SELECTED"
    /\ selectedAction' = "null"
    /\ startCoord' = <<>>
    /\ endCoord' = <<>>
    /\ startPos' = EffectStartPos("PLAYER_SELECTED", side, pos, "null")
    /\ endPos' = EffectEndPos("PLAYER_SELECTED")
    /\ UNCHANGED dragMode

\* A button of the action picker (shown in PLAYER_SELECTED)
handleActionSelect(action) ==
    /\ view = "game"
    /\ state = "PLAYER_SELECTED"
    /\ selectedAction' = action
    /\ state' = "DRAWING"
    /\ startPos' = EffectStartPos("DRAWING", activeSide, selectedPos, action)
    /\ endPos' = EffectEndPos("DRAWING")
    /\ UNCHANGED <<activeSide, selectedPos, startCoord, endCoord, dragMode>>
    /\ UNCHANGED <<appVars, subVars, pressVars>>

handleDrawingComplete(start, end) ==
    /\ startCoord' = start
    /\ endCoord' = end
    /\ state' = "RESULT_PENDING"
    /\ UNCHANGED <<activeSide, selectedPos, selectedAction>>

\* mousedown / touchstart on the court
handlePointerDown(pt) ==
    /\ view = "game"
    /\ IF state # "DRAWING" /\ state # "RESULT_PENDING"
       THEN UNCHANGED courtVars
       ELSE IF endPos # <<>> /\ WithinHitRadius(pt, endPos)
       THEN dragMode' = "end" /\ UNCHANGED <<startPos, endPos>>
       ELSE IF startPos # <<>> /\ WithinHitRadius(pt, startPos)
       THEN dragMode' = "start" /\ UNCHANGED <<startPos, endPos>>
       ELSE dragMode' = "end" /\ endPos' = pt /\ UNCHANGED startPos
    /\ UNCHANGED <<appVars, flowVars, subVars, pressVars>>

\* mousemove / touchmove on the court
handlePointerMove(pt) ==
    /\ view = "game"
    /\ IF dragMode = "null"
       THEN UNCHANGED courtVars
       ELSE IF dragMode = "start"
       THEN startPos' = pt /\ UNCHANGED <<endPos, dragMode>>
       ELSE endPos' = pt /\ UNCHANGED <<startPos, dragMode>>
    /\ UNCHANGED <<appVars, flowVars, subVars, pressVars>>

\* mouseup / mouseleave / touchend on the court
handlePointerUp ==
    /\ view = "game"
    /\ dragMode' = "null"
    /\ IF startPos # <<>> /\ endPos # <<>>
       THEN handleDrawingComplete(normalize(startPos), normalize(endPos))
       ELSE UNCHANGED flowVars
    /\ UNCHANGED <<startPos, endPos>>
    /\ UNCHANGED <<appVars, subVars, pressVars>>

\* Faulty variants of the result rules: Normal wins the rally for the acting
\* team (C8 fails with it); Error scores for the acting team (C7 fails with it).
PointWinnerCountingNormal(isMyTeam, result) ==
    IF result = "Error" THEN (IF ~isMyTeam THEN "me" ELSE "op")
    ELSE (IF isMyTeam THEN "me" ELSE "op")

ResultScoreUpdateErrorToActor(isMyTeam, result) ==
    IF result = "Normal" THEN <<>>
    ELSE <<[myDelta |-> IF isMyTeam THEN 1 ELSE 0, opDelta |-> IF ~isMyTeam THEN 1 ELSE 0]>>

\* The team that wins the point of a result of the acting side ("null": none)
PointWinner(isMyTeam, result) ==
    IF result = "Point" THEN (IF isMyTeam THEN "me" ELSE "op")
    ELSE IF result = "Error" THEN (IF ~isMyTeam THEN "me" ELSE "op")
    ELSE "null"

\* scoreUpdate of handleResult (<<>>: null)
ResultScoreUpdate(isMyTeam, result) ==
    IF result = "Point"
    THEN <<[myDelta |-> IF isMyTeam THEN 1 ELSE 0, opDelta |-> IF ~isMyTeam THEN 1 ELSE 0]>>
    ELSE IF result = "Error"
    THEN <<[myDelta |-> IF ~isMyTeam THEN 1 ELSE 0, opDelta |-> IF isMyTeam THEN 1 ELSE 0]>>
    ELSE <<>>

\* Faulty variant of ResultLog: the entry records the scores the commit
\* started from (C16 fails with it).
ResultLogWithScoresBefore(result) ==
    LET isMyTeam == activeSide = "me"
    IN [setNumber |-> currentSet,
        myScore |-> myScore,
        opScore |-> opScore,
        playerNumber |-> IF selectedPos = PosL THEN LiberoOf(activeSide)
                         ELSE LineupOf(activeSide)[selectedPos],
        position |-> selectedPos,
        action |-> selectedAction,
        quality |-> "Normal",
        result |-> result,
        startCoord |-> startCoord,
        endCoord |-> endCoord,
        note |-> IF isMyTeam THEN teamConfig.myName ELSE teamConfig.opName,
        servingTeam |-> servingTeam]

\* The LogEntry handleResult builds
\* Faulty variant of ResultLog: the jersey is read from the lineup as the
\* side-out rotation of the commit leaves it (C37 fails with it).
ResultLogReadingRotatedLineup(result) ==
    LET isMyTeam == activeSide = "me"
        winner == PointWinner(isMyTeam, result)
        lineup == IF winner = activeSide /\ winner # servingTeam
                  THEN getRotatedLineup(IF isMyTeam THEN myLineup ELSE opLineup)
                  ELSE IF isMyTeam THEN myLineup ELSE opLineup
        playerNumber == IF selectedPos = PosL
                        THEN (IF isMyTeam THEN myLibero ELSE opLibero)
                        ELSE lineup[selectedPos]
        scoreUpdate == ResultScoreUpdate(isMyTeam, result)
        newServingTeam == IF winner # "null" THEN SideOutServe(winner) ELSE "null"
    IN [setNumber |-> currentSet,
        myScore |-> IF scoreUpdate # <<>> THEN myScore + scoreUpdate[1].myDelta ELSE myScore,
        opScore |-> IF scoreUpdate # <<>> THEN opScore + scoreUpdate[1].opDelta ELSE opScore,
        playerNumber |-> playerNumber,
        position |-> selectedPos,
        action |-> selectedAction,
        quality |-> "Normal",
        result |-> result,
        startCoord |-> startCoord,
        endCoord |-> endCoord,
        note |-> IF isMyTeam THEN teamConfig.myName ELSE teamConfig.opName,
        servingTeam |-> IF newServingTeam # "null" THEN newServingTeam ELSE servingTeam]

ResultLog(result) ==
    LET isMyTeam == activeSide = "me"
        lineup == IF isMyTeam THEN myLineup ELSE opLineup
        playerNumber == IF selectedPos = PosL
                        THEN (IF isMyTeam THEN myLibero ELSE opLibero)
                        ELSE lineup[selectedPos]
        scoreUpdate == ResultScoreUpdate(isMyTeam, result)
        winner == PointWinner(isMyTeam, result)
        newServingTeam == IF winner # "null" THEN SideOutServe(winner) ELSE "null"
    IN [setNumber |-> currentSet,
        myScore |-> IF scoreUpdate # <<>> THEN myScore + scoreUpdate[1].myDelta ELSE myScore,
        opScore |-> IF scoreUpdate # <<>> THEN opScore + scoreUpdate[1].opDelta ELSE opScore,
        playerNumber |-> playerNumber,
        position |-> selectedPos,
        action |-> selectedAction,
        quality |-> "Normal",
        result |-> result,
        startCoord |-> startCoord,
        endCoord |-> endCoord,
        note |-> IF isMyTeam THEN teamConfig.myName ELSE teamConfig.opName,
        servingTeam |-> IF newServingTeam # "null" THEN newServingTeam ELSE servingTeam]

\* Result buttons of the right panel, enabled in RESULT_PENDING only
handleResult(result) ==
    /\ view = "game"
    /\ state = "RESULT_PENDING"
    /\ IF selectedPos = NoPos \/ selectedAction = "null"
       THEN UNCHANGED vars
       ELSE LET isMyTeam == activeSide = "me"
                winner == PointWinner(isMyTeam, result)
            IN /\ HistoryRoom
               /\ handleGameAction(
                    <<ResultLog(result)>>,
                    ResultScoreUpdate(isMyTeam, result),
                    IF winner # "null" THEN SideOutLineup(winner) ELSE <<>>,
                    IF winner # "null" THEN SideOutServe(winner) ELSE "null")
               /\ resetFlow
               /\ UNCHANGED <<subVars, pressVars>>

\* ----------------------------------------- GameView: long press, substitution
\* timers: the closures (side, pos) of the pending long-press timeouts, oldest
\* first (equal delays: they expire in the order they were set).
\* longPressTimer: "null", "pending" (the id of the last of timers) or "fired"
\* (the id of a timeout that has run).
\* held: the sidebar slots <<side, pos>> a pointer is down on (a finger, or the
\* mouse button); a slot takes its next press after the release of the last.

\* mousedown / touchstart on a sidebar slot
handlePlayerDown(side, pos) ==
    /\ view = "game"
    /\ <<side, pos>> \notin held
    /\ Len(timers) < MaxTimers
    /\ held' = held \cup {<<side, pos>>}
    /\ isLongPress' = FALSE
    /\ timers' = Append(timers, <<side, pos>>)
    /\ longPressTimer' = "pending"
    /\ UNCHANGED <<appVars, flowVars, subVars, courtVars>>

\* The 1.5 s timeout callback of the oldest pending timer
longPressTimeout ==
    /\ view = "game"
    /\ timers # <<>>
    /\ isLongPress' = TRUE
    /\ subTarget' = timers[1]
    /\ subNumber' = ""
    /\ showSubModal' = TRUE
    /\ timers' = Tail(timers)
    /\ longPressTimer' = IF Len(timers) = 1 /\ longPressTimer = "pending"
                         THEN "fired" ELSE longPressTimer
    /\ UNCHANGED <<held, appVars, flowVars, courtVars>>

\* mouseup / touchend on a sidebar slot
handlePlayerUp(side, pos) ==
    /\ view = "game"
    /\ <<side, pos>> \in held
    /\ held' = held \ {<<side, pos>>}
    /\ timers' = IF longPressTimer = "pending"
                 THEN SubSeq(timers, 1, Len(timers) - 1) ELSE timers
    /\ longPressTimer' = "null"
    /\ IF ~isLongPress
       THEN handlePlayerSelect(side, pos)
       ELSE UNCHANGED <<flowVars, courtVars>>
    /\ UNCHANGED <<isLongPress, appVars, subVars>>

\* Typing into the substitution dialog
setSubNumber(value) ==
    /\ view = "game"
    /\ showSubModal /\ subTarget # <<>>
    /\ subNumber' = value
    /\ UNCHANGED <<showSubModal, subTarget, appVars, flowVars, pressVars, courtVars>>

\* Cancel button of the substitution dialog
cancelSub ==
    /\ view = "game"
    /\ showSubModal /\ subTarget # <<>>
    /\ showSubModal' = FALSE
    /\ UNCHANGED <<subNumber, subTarget, appVars, flowVars, pressVars, courtVars>>

\* Faulty variant of SubLineupUpdate: the number typed is given to the libero
\* as well as to the slot (C24 fails with it).
SubLineupUpdateAlsoLibero ==
    LET isMyTeam == subTarget[1] = "me"
        currentLineup == IF isMyTeam THEN myLineup ELSE opLineup
    IN [isMyTeam |-> isMyTeam,
        newLineup |-> IF subTarget[2] = PosL THEN currentLineup
                      ELSE [currentLineup EXCEPT ![subTarget[2]] = subNumber],
        newLibero |-> <<subNumber>>]

\* The lineupUpdate of a substitution
SubLineupUpdate ==
    LET isMyTeam == subTarget[1] = "me"
        currentLineup == IF isMyTeam THEN myLineup ELSE opLineup
    IN [isMyTeam |-> isMyTeam,
        newLineup |-> IF subTarget[2] = PosL THEN currentLineup
                      ELSE [currentLineup EXCEPT ![subTarget[2]] = subNumber],
        newLibero |-> IF subTarget[2] = PosL THEN <<subNumber>> ELSE <<>>]

\* Confirm button of the substitution dialog
handleSubConfirm ==
    /\ view = "game"
    /\ showSubModal /\ subTarget # <<>>
    /\ IF Trim(subNumber) = ""
       THEN /\ showSubModal' = FALSE
            /\ UNCHANGED <<subNumber, subTarget, appVars>>
       ELSE /\ HistoryRoom
            /\ handleGameAction(<<>>, <<>>, <<SubLineupUpdate>>, "null")
            /\ showSubModal' = FALSE
            /\ subTarget' = <<>>
            /\ UNCHANGED subNumber
    /\ UNCHANGED <<flowVars, pressVars, courtVars>>

\* -------------------------------------------------------------- StatsView
\* getTeamLogs: the entries of the ledger filed under a side
getTeamLogs(side) ==
    LET IsOfSide(l) ==
            LET isMyAction == l.note = teamConfig.myName
                logTeam == IF isMyAction THEN "me" ELSE "op"
            IN logTeam = side
    IN SelectSeq(logs, IsOfSide)

\* getPlayerLogs: those of a jersey number
getPlayerLogs(playerNum, side) ==
    LET IsOfPlayer(l) == l.playerNumber = playerNum
    IN SelectSeq(getTeamLogs(side), IsOfPlayer)

\* Faulty variant of StatsStep: every Block entry counts as a block, whatever
\* its result (C30 fails with it).
StatsStepCountingEveryBlock(stats, l) ==
    LET s1 == IF l.action = "Attack"
              THEN [stats EXCEPT !.attackTotal = @ + 1,
                                 !.attackKills = IF l.result = "Point" THEN @ + 1 ELSE @]
              ELSE stats
        s2 == IF l.action = "Block" THEN [s1 EXCEPT !.blocks = @ + 1] ELSE s1
        s3 == IF l.action = "Serve"
              THEN [s2 EXCEPT !.serveAces = IF l.result = "Point" THEN @ + 1 ELSE @,
                              !.serveErrors = IF l.result = "Error" THEN @ + 1 ELSE @]
              ELSE s2
    IN IF l.action = "Dig" THEN [s3 EXCEPT !.digs = @ + 1] ELSE s3

\* The body of calculateStats's forEach: its four ifs in turn
StatsStep(stats, l) ==
    LET s1 == IF l.action = "Attack"
              THEN [stats EXCEPT !.attackTotal = @ + 1,
                                 !.attackKills = IF l.result = "Point" THEN @ + 1 ELSE @]
              ELSE stats
        s2 == IF l.action = "Block" /\ l.result = "Point"
              THEN [s1 EXCEPT !.blocks = @ + 1] ELSE s1
        s3 == IF l.action = "Serve"
              THEN [s2 EXCEPT !.serveAces = IF l.result = "Point" THEN @ + 1 ELSE @,
                              !.serveErrors = IF l.result = "Error" THEN @ + 1 ELSE @]
              ELSE s2
    IN IF l.action = "Dig" THEN [s3 EXCEPT !.digs = @ + 1] ELSE s3

RECURSIVE StatsForEach(_, _)
\* filteredLogs.forEach from the entry at the head on
StatsForEach(stats, filteredLogs) ==
    IF filteredLogs = <<>> THEN stats
    ELSE StatsForEach(StatsStep(stats, Head(filteredLogs)), Tail(filteredLogs))

calculateStats(filteredLogs) ==
    LET stats == StatsForEach([attackKills |-> 0, attackTotal |-> 0, blocks |-> 0,
                               serveAces |-> 0, serveErrors |-> 0, digs |-> 0,
                               totalPoints |-> 0], filteredLogs)
    IN [stats EXCEPT !.totalPoints = stats.attackKills + stats.blocks + stats.serveAces]

\* ------------------------------------------------------------ persistence
\* What localStorage.getItem returns for a key of the load list, by what
\* JSON.parse makes of it: parses (FALSE: JSON.parse throws), isObject (FALSE:
\* the JSON text null), state and config (<<>>: the member is missing).
SavedConfig == [matchName |-> "G0", myName |-> "Old", opName |-> "New"]

\* The state member of a match saved earlier: second set, 7-5, opponent
\* serving, one rally entry.
SavedState ==
    [currentSet |-> 2, mySetWins |-> 1, opSetWins |-> 0,
     myLineup |-> getRotatedLineup(TestFillForm.myLineup),
     opLineup |-> TestFillForm.opLineup,
     myRoles |-> TestFillForm.myRoles, opRoles |-> TestFillForm.opRoles,
     myLibero |-> "", opLibero |-> "88",
     myScore |-> 7, opScore |-> 5, servingTeam |-> "op",
     logs |-> <<[setNumber |-> 2, myScore |-> 7, opScore |-> 5,
                 playerNumber |-> "12", position |-> 2, action |-> "Serve",
                 quality |-> "Normal", result |-> "Point",
                 startCoord |-> <<925, 75>>, endCoord |-> <<300, 150>>,
                 note |-> "New", servingTeam |-> "op"]>>]

NotJSONBlob == [parses |-> FALSE, isObject |-> FALSE, state |-> <<>>, config |-> <<>>]
NullBlob == [parses |-> TRUE, isObject |-> FALSE, state |-> <<>>, config |-> <<>>]
ConfigOnlyBlob == [parses |-> TRUE, isObject |-> TRUE, state |-> <<>>, config |-> <<SavedConfig>>]
SavedGameBlob == [parses |-> TRUE, isObject |-> TRUE, state |-> <<SavedState>>, config |-> <<SavedConfig>>]
BlobInputs == {NotJSONBlob, NullBlob, ConfigOnlyBlob, SavedGameBlob}

\* Faulty variant of handleLoadGame: the stacks survive the load (C26 fails
\* with it).
handleLoadGameKeepingStacks(savedState, config) ==
    /\ teamConfig' = config
    /\ UNCHANGED localStorage
    /\ SetGameState([savedState EXCEPT !.currentSet = IF @ = 0 THEN 1 ELSE @])
    /\ isGameActive' = TRUE
    /\ UNCHANGED <<history, future, view>>

\* handleLoadGame with a state that has all its members (x || d is d when x
\* is 0 or ''; the defaults 0 and '' give x back)
handleLoadGame(savedState, config) ==
    /\ teamConfig' = config
    /\ UNCHANGED localStorage
    /\ SetGameState([savedState EXCEPT !.currentSet = IF @ = 0 THEN 1 ELSE @])
    /\ history' = <<>>
    /\ future' = <<>>
    /\ isGameActive' = TRUE
    /\ UNCHANGED view

\* A file of the load list of the options menu.  JSON.parse throws on a text
\* that is not JSON, parsed.state throws on null; with the state member
\* missing, handleLoadGame has called setTeamConfig when savedState.currentSet
\* throws.  The catch block reports and the queued update is applied.
handleLoadFile(data) ==
    /\ view = "game"
    /\ IF ~data.parses \/ ~data.isObject
       THEN UNCHANGED vars
       ELSE IF data.state = <<>>
       THEN /\ teamConfig' = data.config[1]
            /\ UNCHANGED localStorage
            /\ UNCHANGED <<view, isGameActive, gameVars, history, future, viewVars>>
       ELSE /\ handleLoadGame(data.state[1], data.config[1])
            /\ UNCHANGED viewVars

\* JSON.stringify of a ledger entry leaves out a member that is undefined (the
\* coordinates of an entry without a trajectory); read back from the parsed
\* object, a member left out is undefined again.
OptionalMembers == {"startCoord", "endCoord"}
StringifyEntry(l) ==
    [f \in DOMAIN l \ {g \in OptionalMembers : l[g] = <<>>} |-> l[f]]
ParseEntry(json) ==
    [f \in DOMAIN json \cup OptionalMembers |-> IF f \in DOMAIN json THEN json[f] ELSE <<>>]

\* Faulty variant of saveObject: the two scores change places (C36 fails with
\* it).
saveObjectScoresSwapped ==
    [config |-> teamConfig,
     state |-> [getCurrentState EXCEPT !.myScore = opScore, !.opScore = myScore]]

\* handleConfirmSave's saveObject, savedAt aside
saveObject ==
    [config |-> teamConfig,
     state |-> [currentSet |-> currentSet, mySetWins |-> mySetWins,
                opSetWins |-> opSetWins, myLineup |-> myLineup, opLineup |-> opLineup,
                myRoles |-> myRoles, opRoles |-> opRoles,
                myLibero |-> myLibero, opLibero |-> opLibero,
                myScore |-> myScore, opScore |-> opScore,
                servingTeam |-> servingTeam, logs |-> logs]]

\* The text JSON.stringify makes of a saveObject, and what JSON.parse gives
\* handleLoadFile for it
JSONStringify(object) ==
    [config |-> object.config,
     state |-> [object.state EXCEPT
                   !.logs = [i \in DOMAIN object.state.logs |->
                                StringifyEntry(object.state.logs[i])]]]
JSONParse(text) ==
    [parses |-> TRUE, isObject |-> TRUE,
     state |-> <<[text.state EXCEPT
                     !.logs = [i \in DOMAIN text.state.logs |->
                                  ParseEntry(text.state.logs[i])]]>>,
     config |-> <<text.config>>]

\* Confirm button of the save dialog: the text is stored under the save key,
\* or setItem throws (the quota) and the catch block reports.
handleConfirmSave ==
    /\ view = "game"
    /\ \/ localStorage' = <<JSONStringify(saveObject)>>
       \/ UNCHANGED localStorage
    /\ UNCHANGED <<view, isGameActive, teamConfig, gameVars, history, future, viewVars>>

\* The file of the save key picked in the load list
handleLoadSaved ==
    /\ localStorage # <<>>
    /\ handleLoadFile(JSONParse(localStorage[1]))

\* ---------------------------------------------------------- specification
\* Spec drives the handlers with one pointer.  The substitution dialog and the
\* action picker are rendered over the whole view with a backdrop that takes
\* every click (renderSubModal, renderActionModal), and a press on a sidebar
\* slot ends with its release before anything else is touched; its timeout
\* may run while it lasts.
DialogOpen == showSubModal /\ subTarget # <<>>
PickerOpen == state = "PLAYER_SELECTED"
Pressing == held # {}
PointerFree == ~DialogOpen /\ ~PickerOpen /\ ~Pressing

Next ==
    \/ \E form \in SetupForms : startGame(form)
    \/ handleResumeGame
    \/ handleNewMatch
    \/ PointerFree /\ handleHome
    \/ PointerFree /\ handleNextSet
    \/ PointerFree /\ handleUndo
    \/ PointerFree /\ handleRedo
    \/ PointerFree /\ \E isMyTeam \in BOOLEAN : handleRotation(isMyTeam)
    \/ PointerFree /\ \E isMyTeam \in BOOLEAN, delta \in {1, -1} :
                         handleScoreAdjust(isMyTeam, delta)
    \/ PointerFree /\ \E side \in Sides, pos \in PressPositions : handlePlayerDown(side, pos)
    \/ \E slot \in held : handlePlayerUp(slot[1], slot[2])
    \/ longPressTimeout
    \/ ~Pressing /\ \E value \in SubNumberInputs : setSubNumber(value)
    \/ ~Pressing /\ cancelSub
    \/ ~Pressing /\ handleSubConfirm
    \/ \E action \in ActionInputs : handleActionSelect(action)
    \/ cancelFlow
    \/ PointerFree /\ \E pt \in PointInputs : handlePointerDown(pt)
    \/ PointerFree /\ \E pt \in PointInputs : handlePointerMove(pt)
    \/ PointerFree /\ handlePointerUp
    \/ PointerFree /\ \E result \in ResultTypes : handleResult(result)

Spec == Init /\ [][Next]_vars

\* ------------------------------------------------- rotation on any lineup
\* SpecRotate starts a match in progress from any lineup of my team drawn from
\* LineupInputs (six distinct jerseys in any order, or the jerseys of
\* RepeatedJerseys repeated, as substitutions can leave them) and applies the
\* rotation buttons, Undo and Redo.
Jerseys == {"1", "2", "3", "4", "5", "6"}
RepeatedJerseys == {"1", "2"}
Distinct(lineup) == \A p, q \in Positions : p # q => lineup[p] # lineup[q]
LineupInputs ==
    {l \in [Positions -> Jerseys] : Distinct(l) \/ Range(l) \subseteq RepeatedJerseys}

InitRotate ==
    /\ view = "game"
    /\ isGameActive = TRUE
    /\ teamConfig = [matchName |-> TestFillForm.matchName,
                     myName |-> TestFillForm.myName, opName |-> TestFillForm.opName]
    /\ currentSet = 1
    /\ mySetWins = 0
    /\ opSetWins = 0
    /\ myLineup \in LineupInputs
    /\ opLineup = TestFillForm.opLineup
    /\ myRoles = TestFillForm.myRoles
    /\ opRoles = TestFillForm.opRoles
    /\ myLibero = TestFillForm.myLibero
    /\ opLibero = TestFillForm.opLibero
    /\ myScore = 0
    /\ opScore = 0
    /\ servingTeam = TestFillForm.firstServe
    /\ logs = <<>>
    /\ history = <<>>
    /\ future = <<>>
    /\ state = "IDLE"
    /\ activeSide = "me"
    /\ selectedPos = NoPos
    /\ selectedAction = "null"
    /\ startCoord = <<>>
    /\ endCoord = <<>>
    /\ showSubModal = FALSE
    /\ subNumber = ""
    /\ subTarget = <<>>
    /\ longPressTimer = "null"
    /\ isLongPress = FALSE
    /\ timers = <<>>
    /\ held = {}
    /\ startPos = <<>>
    /\ endPos = <<>>
    /\ dragMode = "null"
    /\ localStorage = <<>>

NextRotate ==
    \/ \E isMyTeam \in BOOLEAN : handleRotation(isMyTeam)
    \/ handleUndo
    \/ handleRedo

SpecRotate == InitRotate /\ [][NextRotate]_vars

\* ----------------------------------------------------- mutating actions
\* A step of a handler that goes through pushHistory: a rally commit, an
\* accepted manual adjustment, a substitution with a number typed, a manual
\* rotation, a set advance.
CommitStep ==
    /\ selectedPos # NoPos /\ selectedAction # "null"
    /\ \E result \in ResultTypes : handleResult(result)
AdjustStep ==
    \E isMyTeam \in BOOLEAN, delta \in {1, -1} :
        /\ ~RejectsAdjust(IF isMyTeam THEN myScore ELSE opScore, delta)
        /\ handleScoreAdjust(isMyTeam, delta)
SubstitutionStep == Trim(subNumber) # "" /\ handleSubConfirm
RotationStep == \E isMyTeam \in BOOLEAN : handleRotation(isMyTeam)
MutatingStep ==
    CommitStep \/ AdjustStep \/ SubstitutionStep \/ RotationStep \/ handleNextSet

\* ------------------------------------------------------------ properties
\* C1: a mutating action followed by Undo gives back the GameState the action
\* started from, in all thirteen fields.
C1_UndoRestores ==
    [][MutatingStep => (UndoResult(World).cur)' = getCurrentState]_vars

\* Undo has just reverted a rally commit that scored for my team.
C1_Witness ==
    /\ future # <<>>
    /\ Len(future[1].logs) = Len(logs) + 1
    /\ future[1].myScore = myScore + 1
    /\ future[1].logs[Len(logs) + 1].note # ManualNote(1)

\* C2: with a non-empty past, Undo followed at once by Redo restores the
\* GameState and both stacks.
C2_RoundTrip ==
    history # <<>> => RedoResult(UndoResult(World)) = World

\* After two actions and one Undo: both stacks are non-empty and the three
\* GameStates involved differ.
C2_Witness ==
    /\ history # <<>>
    /\ future # <<>>
    /\ getCurrentState # history[Len(history)]
    /\ getCurrentState # future[1]

\* C3: every mutating action appends exactly one snapshot, the GameState it
\* started from, to the past; and a step that changes the GameState either
\* appends that snapshot or is Undo, Redo, a match start or a match reset.
C3_PushBeforeMutation ==
    [][/\ MutatingStep => history' = Append(history, getCurrentState)
       /\ getCurrentState' # getCurrentState =>
            \/ history' = Append(history, getCurrentState)
            \/ handleUndo
            \/ handleRedo
            \/ handleNewMatch
            \/ \E form \in SetupForms : startGame(form)]_vars

\* The past holds the snapshot taken by a substitution of my team and the
\* one taken by a rally commit that followed it.
C3_Witness ==
    /\ Len(history) = 2
    /\ \E p \in Positions : /\ history[2].myLineup[p] \in SubNumberInputs
                             /\ history[1].myLineup[p] \notin SubNumberInputs
    /\ Len(logs) = Len(history[2].logs) + 1
    /\ logs[Len(logs)].startCoord # <<>>

\* C4: a mutating action taken while the future is non-empty, that is after
\* one or more Undos, leaves the future empty, and Redo then changes nothing.
C4_BranchDiscardsFuture ==
    [][(future # <<>> /\ MutatingStep) =>
          /\ future' = <<>>
          /\ RedoResult(World)' = World']_vars

\* After an Undo, with every kind of input open to the pointer, a rotation
\* is about to discard the undone state.
C4_Witness ==
    /\ future # <<>>
    /\ PointerFree
    /\ ENABLED RotationStep

\* A commit that raises a score: a rally result of Point or Error, a manual +1.
PointOrErrorStep ==
    /\ selectedPos # NoPos /\ selectedAction # "null"
    /\ \E result \in {"Point", "Error"} : handleResult(result)
ManualPlusStep == \E isMyTeam \in BOOLEAN : handleScoreAdjust(isMyTeam, 1)
ScoreIncreasingStep == PointOrErrorStep \/ ManualPlusStep

\* C5: on a score-increasing commit, if the serving team changed, the new
\* serving team's lineup is the rotation of its lineup before the commit and
\* the other lineup is unchanged; if it did not change, both are unchanged.
C5_SideOutLineups ==
    [][ScoreIncreasingStep =>
          /\ (servingTeam' # servingTeam /\ servingTeam' = "me") =>
                myLineup' = getRotatedLineup(myLineup) /\ opLineup' = opLineup
          /\ (servingTeam' # servingTeam /\ servingTeam' = "op") =>
                opLineup' = getRotatedLineup(opLineup) /\ myLineup' = myLineup
          /\ servingTeam' = servingTeam =>
                myLineup' = myLineup /\ opLineup' = opLineup]_vars

\* A rally commit has just given the service to the opponent, whose lineup
\* was rotated.
C5_Witness ==
    /\ history # <<>>
    /\ LET before == history[Len(history)]
       IN /\ before.servingTeam = "me" /\ servingTeam = "op"
          /\ Len(logs) = Len(before.logs) + 1
          /\ logs[Len(logs)].startCoord # <<>>
          /\ opLineup # before.opLineup
          /\ opLineup[6] = before.opLineup[1]
          /\ myLineup = before.myLineup

\* C6: after a score-increasing commit the serving team is the team whose
\* score was raised, and it changed exactly when that team was not serving
\* before the commit.
C6_ServeFollowsPoint ==
    [][ScoreIncreasingStep =>
          LET scorer == IF myScore' = myScore + 1 THEN "me" ELSE "op"
          IN /\ servingTeam' = scorer
             /\ (servingTeam' # servingTeam) <=> (scorer # servingTeam)]_vars

\* The opponent, serving after a side-out, has scored again and kept the
\* service.
C6_Witness ==
    /\ Len(history) = 2
    /\ history[1].servingTeam = "me"
    /\ history[2].servingTeam = "op"
    /\ servingTeam = "op"
    /\ opScore = history[2].opScore + 1
    /\ history[2].opScore = history[1].opScore + 1

\* C7: a commit of Point adds 1 to the acting team's score and leaves the
\* other score; a commit of Error adds 1 to the opposing team's score and
\* leaves the acting team's score.
C7_RallyScoring ==
    [][(selectedPos # NoPos /\ selectedAction # "null") =>
          /\ handleResult("Point") =>
                IF activeSide = "me"
                THEN myScore' = myScore + 1 /\ opScore' = opScore
                ELSE opScore' = opScore + 1 /\ myScore' = myScore
          /\ handleResult("Error") =>
                IF activeSide = "me"
                THEN opScore' = opScore + 1 /\ myScore' = myScore
                ELSE myScore' = myScore + 1 /\ opScore' = opScore]_vars

\* An Error of an opponent's player has just been committed and has scored
\* for my team.
C7_Witness ==
    /\ history # <<>>
    /\ logs # <<>>
    /\ LET before == history[Len(history)]
           entry == logs[Len(logs)]
       IN /\ Len(logs) = Len(before.logs) + 1
          /\ entry.result = "Error"
          /\ entry.note = teamConfig.opName
          /\ myScore = before.myScore + 1
          /\ opScore = before.opScore

\* C8: a commit of Normal changes no score, no lineup and not the serving
\* team, and appends exactly one ledger entry, which carries the pending
\* start and end coordinates.
C8_NormalCommit ==
    [][(selectedPos # NoPos /\ selectedAction # "null" /\ handleResult("Normal")) =>
          /\ UNCHANGED <<myScore, opScore, myLineup, opLineup, servingTeam>>
          /\ Len(logs') = Len(logs) + 1
          /\ SubSeq(logs', 1, Len(logs)) = logs
          /\ logs'[Len(logs')].result = "Normal"
          /\ startCoord # <<>> /\ endCoord # <<>>
          /\ logs'[Len(logs')].startCoord = startCoord
          /\ logs'[Len(logs')].endCoord = endCoord]_vars

\* A Normal result of the team that is not serving has just been committed.
C8_Witness ==
    /\ history # <<>>
    /\ logs # <<>>
    /\ LET before == history[Len(history)]
           entry == logs[Len(logs)]
       IN /\ Len(logs) = Len(before.logs) + 1
          /\ entry.result = "Normal"
          /\ entry.startCoord # <<>>
          /\ entry.note = teamConfig.opName
          /\ servingTeam = "me"

\* C9: the rotation of a lineup has position 1 from 2, 2 from 3, 3 from 4,
\* 4 from 5, 5 from 6 and 6 from 1, and exactly the keys 1..6.
C9_RotateMapping ==
    LET old == myLineup
        new == getRotatedLineup(old)
    IN /\ DOMAIN new = 1..6
       /\ new[1] = old[2] /\ new[2] = old[3] /\ new[3] = old[4]
       /\ new[4] = old[5] /\ new[5] = old[6] /\ new[6] = old[1]

\* The rotation button has rotated a lineup of six distinct jerseys.
C9_Witness ==
    /\ history # <<>>
    /\ LET old == history[Len(history)].myLineup
       IN /\ Distinct(old)
          /\ myLineup # old
          /\ myLineup[1] = old[2] /\ myLineup[6] = old[1]

RECURSIVE RotN(_, _)
\* getRotatedLineup applied k times
RotN(k, lineup) == IF k = 0 THEN lineup ELSE RotN(k - 1, getRotatedLineup(lineup))

\* C10: six rotations of a lineup give the lineup back, and one to five
\* rotations do not when its six jerseys are pairwise distinct.
C10_RotateOrderSix ==
    /\ RotN(6, myLineup) = myLineup
    /\ Distinct(myLineup) => \A k \in 1..5 : RotN(k, myLineup) # myLineup

\* The rotation button has rotated a lineup of six distinct jerseys twice.
C10_Witness ==
    /\ Len(history) = 2
    /\ Distinct(history[1].myLineup)
    /\ myLineup = RotN(2, history[1].myLineup)
    /\ myLineup # history[1].myLineup
    /\ myLineup # history[2].myLineup

\* ------------------------------------------- the store without the rally flow
\* SpecStore drives the store from the setup footer, the header, the options
\* menu, the rotation buttons and the score adjustment popover only.
StoreForms == SetupForms \cup {ManualForm}

NextStore ==
    \/ \E form \in StoreForms : startGame(form)
    \/ handleResumeGame
    \/ handleNewMatch
    \/ handleHome
    \/ handleNextSet
    \/ handleUndo
    \/ handleRedo
    \/ \E isMyTeam \in BOOLEAN : handleRotation(isMyTeam)
    \/ \E isMyTeam \in BOOLEAN, delta \in {1, -1} : handleScoreAdjust(isMyTeam, delta)

SpecStore == Init /\ [][NextStore]_vars

\* C11: no score is ever negative, and a manual -1 on a team at 0 changes
\* nothing: scores, lineups, serving team, ledger, past and future.
C11_NoNegativeScore ==
    /\ [](myScore >= 0 /\ opScore >= 0)
    /\ [][\A isMyTeam \in BOOLEAN :
            ((IF isMyTeam THEN myScore ELSE opScore) = 0
             /\ handleScoreAdjust(isMyTeam, -1)) =>
                UNCHANGED <<gameVars, history, future>>]_vars

\* My team stands at 0 with the score popover at hand, the opponent has
\* scored, and both stacks hold a snapshot a faulty -1 would disturb.
C11_Witness ==
    /\ view = "game"
    /\ myScore = 0 /\ opScore = 1
    /\ history # <<>> /\ future # <<>>

Last(seq) == seq[Len(seq)]
IsPrefix(s, t) == Len(s) <= Len(t) /\ SubSeq(t, 1, Len(s)) = s

\* C13: an accepted manual adjustment appends exactly one ledger entry, marked
\* as manual, that has no jersey number, no action kind of a player's action
\* and no start or end coordinates.
C13_ManualEntryAnonymous ==
    [][AdjustStep =>
          /\ Len(logs') = Len(logs) + 1
          /\ IsPrefix(logs, logs')
          /\ Last(logs').note \in {ManualNote(1), ManualNote(-1)}
          /\ Last(logs').playerNumber = ""
          /\ Last(logs').action \notin ActionTypes
          /\ Last(logs').startCoord = <<>>
          /\ Last(logs').endCoord = <<>>]_vars

\* C14 as claimed: in every step of a match (rally commit, manual adjustment,
\* substitution, manual rotation, set advance, Undo, Redo) the ledger before
\* the step is a prefix of the ledger after it.
C14_LedgerNeverPruned ==
    [][(MutatingStep \/ handleUndo \/ handleRedo) => IsPrefix(logs, logs')]_vars

\* C14, amended: the ledger before the step is a prefix of the ledger after
\* it in every mutating step and in every Redo; an Undo puts back the ledger
\* of the snapshot it restores, which is a prefix of the ledger before it.
C14_LedgerPrunedByUndoOnly ==
    [][/\ (MutatingStep \/ handleRedo) => IsPrefix(logs, logs')
       /\ handleUndo => IsPrefix(logs', logs)]_vars

\* Undo has just taken the entry of a manual +1 off a ledger that keeps an
\* older entry.
C14_Witness ==
    /\ future # <<>>
    /\ logs # <<>>
    /\ IsPrefix(logs, future[1].logs)
    /\ Len(future[1].logs) = Len(logs) + 1
    /\ Last(future[1].logs).note = ManualNote(1)

\* C15: the servingTeam of an entry appended by a rally commit or a manual
\* adjustment is the team serving in the state the commit starts from, before
\* its side-out update.
C15_EntryServingTeamBefore ==
    [][(CommitStep \/ AdjustStep) => Last(logs').servingTeam = servingTeam]_vars

\* C16: the entry a rally commit or a manual adjustment appends has the set
\* number current at the commit and the two scores of the state right after
\* the commit.
C16_EntrySetAndScores ==
    [][(CommitStep \/ AdjustStep) =>
          /\ Len(logs') = Len(logs) + 1
          /\ Last(logs').setNumber = currentSet
          /\ Last(logs').setNumber = currentSet'
          /\ Last(logs').myScore = myScore'
          /\ Last(logs').opScore = opScore']_vars

\* A rally scored by the opponent has been committed in the second set.
C16_Witness ==
    /\ currentSet = 2
    /\ logs # <<>>
    /\ Last(logs).setNumber = 2
    /\ Last(logs).startCoord # <<>>
    /\ Last(logs).opScore = 1
    /\ opScore = 1

\* C17: a set advance adds 1 to the set counter, adds one set-win to the team
\* with the strictly higher score, adds none on a tie, and leaves lineups,
\* liberos, roles, serving team and ledger.
C17_SetAdvance ==
    [][handleNextSet =>
          /\ currentSet' = currentSet + 1
          /\ mySetWins' = IF myScore > opScore THEN mySetWins + 1 ELSE mySetWins
          /\ opSetWins' = IF opScore > myScore THEN opSetWins + 1 ELSE opSetWins
          /\ myScore = opScore => UNCHANGED <<mySetWins, opSetWins>>
          /\ UNCHANGED <<myLineup, opLineup, myLibero, opLibero, myRoles, opRoles,
                         servingTeam, logs>>]_vars

\* The opponent, one point ahead, has been credited the first set.
C17_Witness ==
    /\ currentSet = 2
    /\ opSetWins = 1 /\ mySetWins = 0
    /\ opScore = myScore + 1
    /\ Len(history) = 2
    /\ history[2].currentSet = 1 /\ history[2].opSetWins = 0

NoEntryOfCurrentSet == \A i \in 1..Len(logs) : logs[i].setNumber # currentSet

\* C18: after a set advance the scores are 0 before a rally commit or a
\* manual adjustment can be applied: whenever the GameView is shown in a set
\* after the first and the ledger has no entry of that set yet, both scores
\* are 0.
C18_ScoresResetForNewSet ==
    (view = "game" /\ currentSet > 1 /\ NoEntryOfCurrentSet) =>
        (myScore = 0 /\ opScore = 0)

\* --------------------------------------------- the rally flow under touch
\* SpecTouch drives the rally flow of a started match with several fingers:
\* the handlers of the sidebar slots, the action picker, the court and the
\* result buttons fire in any order.  A touch that began on an element ends
\* on it (touchend goes to the element of its touchstart) whatever has been
\* rendered over the element since.
NextTouch ==
    \/ startGame(TestFillForm)
    \/ \E side \in Sides, pos \in PressPositions : handlePlayerDown(side, pos)
    \/ \E side \in Sides, pos \in PressPositions : handlePlayerUp(side, pos)
    \/ \E action \in ActionInputs : handleActionSelect(action)
    \/ cancelFlow
    \/ \E pt \in PointInputs : handlePointerDown(pt)
    \/ \E pt \in PointInputs : handlePointerMove(pt)
    \/ handlePointerUp
    \/ \E result \in ResultTypes : handleResult(result)

SpecTouch == Init /\ [][NextTouch]_vars

\* C19: a rally entry is appended (Redo aside) only from RESULT_PENDING;
\* RESULT_PENDING is entered only from DRAWING, by a release with both
\* trajectory points defined, and DRAWING only from PLAYER_SELECTED, by the
\* choice of an action.
C19_OrderedFlow ==
    [][/\ (Len(logs') = Len(logs) + 1 /\ Last(logs').startCoord # <<>> /\ ~handleRedo) =>
             state = "RESULT_PENDING"
       /\ (state' = "RESULT_PENDING" /\ state # "RESULT_PENDING") =>
             /\ state = "DRAWING"
             /\ selectedPos # NoPos /\ selectedAction # "null"
             /\ startPos # <<>> /\ endPos # <<>>
       /\ (state' = "DRAWING" /\ state # "DRAWING") =>
             state = "PLAYER_SELECTED" /\ selectedPos # NoPos]_vars

\* C20: from every RESULT_PENDING state, the choice of a result appends
\* exactly one ledger entry and leaves the flow in IDLE with no selected
\* position, no selected action and no trajectory coordinates.  The choice
\* is acted on: handleResult does not take its early return there, which it
\* takes when no position or no action is selected.
C20_ResultCommitsAndResets ==
    /\ [](state = "RESULT_PENDING" => (selectedPos # NoPos /\ selectedAction # "null"))
    /\ [][\A result \in ResultTypes :
            (state = "RESULT_PENDING" /\ handleResult(result)) =>
                /\ Len(logs') = Len(logs) + 1
                /\ IsPrefix(logs, logs')
                /\ state' = "IDLE"
                /\ selectedPos' = NoPos
                /\ selectedAction' = "null"
                /\ startCoord' = <<>>
                /\ endCoord' = <<>>]_vars

\* A step taken inside the GameView that ends the flow without a commit: the
\* interaction state goes to IDLE, the selection and the trajectory are
\* discarded and the store is left as it is.
CancelStep ==
    /\ Next
    /\ view' = "game"
    /\ state' = "IDLE"
    /\ selectedPos' = NoPos
    /\ selectedAction' = "null"
    /\ startCoord' = <<>>
    /\ endCoord' = <<>>
    /\ UNCHANGED <<gameVars, history, future>>

\* C21: from RESULT_PENDING the user can cancel: a step is at hand that
\* discards the pending trajectory and returns the flow to IDLE, leaving
\* scores, lineups, serving team, ledger and both stacks unchanged.
C21_CancelFromResultPending ==
    (view = "game" /\ state = "RESULT_PENDING") => ENABLED CancelStep

\* A release on a sidebar slot that selects a player while a flow is in
\* progress
SelectMidFlowStep ==
    /\ state \in {"PLAYER_SELECTED", "DRAWING", "RESULT_PENDING"}
    /\ ~isLongPress
    /\ \E slot \in held : handlePlayerUp(slot[1], slot[2])

\* C22: selecting a player while a flow is in progress clears the selected
\* action, the engine's start and end coordinates and the court's drawn start
\* and end points, so that the new flow enters DRAWING without an end point
\* and reaches RESULT_PENDING only with one drawn in the new flow.
C22_SelectDiscardsPartial ==
    [][/\ SelectMidFlowStep =>
            /\ selectedAction' = "null"
            /\ startCoord' = <<>> /\ endCoord' = <<>>
            /\ startPos' = <<>> /\ endPos' = <<>>
       /\ (state = "PLAYER_SELECTED" /\ state' = "DRAWING") => endPos' = <<>>]_vars

\* ------------------------------------------- the sidebar under several fingers
\* SpecPress drives the sidebar slots of a started match with several fingers:
\* presses and releases of the slots of SlotInputs in any order, the timeouts
\* of the long presses, the substitution dialog and the action picker.  A new
\* touch lands on the dialog or on the picker's backdrop while one is shown.
SlotInputs == {<<"me", 1>>, <<"op", PosL>>}

NextPress ==
    \/ startGame(TestFillForm)
    \/ ~DialogOpen /\ ~PickerOpen /\ \E slot \in SlotInputs : handlePlayerDown(slot[1], slot[2])
    \/ \E slot \in held : handlePlayerUp(slot[1], slot[2])
    \/ longPressTimeout
    \/ \E value \in SubNumberInputs : setSubNumber(value)
    \/ cancelSub
    \/ handleSubConfirm
    \/ \E action \in ActionInputs : handleActionSelect(action)
    \/ cancelFlow
    \/ handleUndo
    \/ handleRedo

SpecPress == Init /\ [][NextPress]_vars

\* C23: the long-press trigger fires only for a press that is still held, so
\* never for one released before its 1.5 s, and once per press: when it has
\* fired for a slot, no further timeout is pending for that slot.
C23_LongPressOncePerHeldPress ==
    [][longPressTimeout =>
          /\ timers[1] \in held
          /\ \A i \in 1..Len(timers') : timers'[i] # timers[1]]_vars

\* C24: a confirmed substitution puts the number typed at the targeted
\* position of the targeted team, or makes it that team's libero when the
\* libero slot is targeted, and changes nothing else: the ledger (no entry is
\* appended), both scores, the serving team, the set counters, the other
\* team's lineup and libero, and the rest of the targeted team's lineup and
\* libero are as before.
C24_SubstitutionFrame ==
    [][SubstitutionStep =>
          LET side == subTarget[1]
              pos == subTarget[2]
          IN /\ UNCHANGED <<logs, myScore, opScore, servingTeam,
                            currentSet, mySetWins, opSetWins>>
             /\ side = "me" => UNCHANGED <<opLineup, opLibero>>
             /\ side = "op" => UNCHANGED <<myLineup, myLibero>>
             /\ (side = "me" /\ pos = PosL) =>
                    myLibero' = subNumber /\ myLineup' = myLineup
             /\ (side = "op" /\ pos = PosL) =>
                    opLibero' = subNumber /\ opLineup' = opLineup
             /\ (side = "me" /\ pos # PosL) =>
                    myLineup' = [myLineup EXCEPT ![pos] = subNumber] /\ myLibero' = myLibero
             /\ (side = "op" /\ pos # PosL) =>
                    opLineup' = [opLineup EXCEPT ![pos] = subNumber] /\ opLibero' = opLibero]_vars

\* Two substitutions have been confirmed: one on position 1 of my team, then
\* one on the opponent's libero.
C24_Witness ==
    /\ Len(history) = 2
    /\ history[1].myLineup[1] \notin SubNumberInputs
    /\ history[2].myLineup[1] \in SubNumberInputs
    /\ history[2].opLibero \notin SubNumberInputs
    /\ opLibero \in SubNumberInputs
    /\ myLineup = history[2].myLineup

\* C25: Undo with an empty past and Redo with an empty future change neither
\* the GameState nor the stacks.
C25_EmptyStackNoOp ==
    [][/\ (history = <<>> /\ handleUndo) => UNCHANGED <<gameVars, history, future>>
       /\ (future = <<>> /\ handleRedo) => UNCHANGED <<gameVars, history, future>>]_vars

\* The GameView after two Undos: the past is empty, the future holds what a
\* further Undo must leave alone, and the score differs from the undone one.
C25_Witness ==
    /\ view = "game"
    /\ history = <<>>
    /\ Len(future) = 2
    /\ future[1].myScore # myScore
    /\ ENABLED handleUndo

\* ---------------------------------------------------- the store with loading
\* SpecLoad adds the load list of the options menu to SpecStore.
NextLoad ==
    \/ NextStore
    \/ \E data \in BlobInputs : handleLoadFile(data)

SpecLoad == Init /\ [][NextLoad]_vars

\* A load of a blob with a state and a config, a start the validation lets
\* through
LoadStep == \E data \in BlobInputs : data.state # <<>> /\ handleLoadFile(data)
StartStep == \E form \in StoreForms : errorMsg(form) = "null" /\ startGame(form)

\* C26: right after the load of a saved match, a match start from setup and
\* a match reset, the past and the future are empty, and Undo and Redo change
\* nothing.
C26_StacksClearedOnLoadStartReset ==
    [][(LoadStep \/ StartStep \/ handleNewMatch) =>
          /\ history' = <<>> /\ future' = <<>>
          /\ UndoResult(World)' = World'
          /\ RedoResult(World)' = World']_vars

\* The saved match has just been loaded: the GameState and the team config
\* are the blob's and the stacks are empty.
C26_Witness ==
    /\ view = "game"
    /\ teamConfig = SavedConfig
    /\ getCurrentState = SavedState
    /\ history = <<>> /\ future = <<>>

\* C28: the load of a malformed blob, one that fails to parse or parses
\* without a state or without a config, leaves the GameState, the team config
\* and both stacks as they were.
C28_MalformedLoadUntouched ==
    [][\A data \in BlobInputs :
          ((~data.parses \/ ~data.isObject \/ data.state = <<>> \/ data.config = <<>>)
           /\ handleLoadFile(data)) =>
              UNCHANGED <<gameVars, teamConfig, history, future>>]_vars

\* ------------------------------------------------------------- the setup form
\* SpecSetup fills the form in many ways before Start is pressed: the test
\* fill with positions 1 and 2 and the libero of my team, position 6 and the
\* libero of the opponent, and the first serve typed over.  sanitizeInput
\* keeps digits only, two at most, no leading zero.
MyNumberInputs == {"", "1", "2", "9"}
OpSlotInputs == {"", "16", "11"}
OpLiberoInputs == {"", "88", "11", "7"}
SetupInputs ==
    {[TestFillForm EXCEPT !.myLineup[1] = a, !.myLineup[2] = b, !.myLibero = c,
                          !.opLineup[6] = d, !.opLibero = e, !.firstServe = f] :
        a \in MyNumberInputs, b \in MyNumberInputs, c \in MyNumberInputs,
        d \in OpSlotInputs, e \in OpLiberoInputs, f \in Sides}

NextSetup ==
    \/ \E form \in SetupInputs : startGame(form)
    \/ handleHome
    \/ handleResumeGame
    \/ handleNewMatch

SpecSetup == Init /\ [][NextSetup]_vars

\* Six non-empty slots, and no jersey number twice among them and the libero
ValidRoster(lineup, libero) ==
    /\ \A p \in Positions : lineup[p] # ""
    /\ \A p, q \in Positions : p # q => lineup[p] # lineup[q]
    /\ libero # "" => \A p \in Positions : lineup[p] # libero

\* C27: a start request on the setup form either changes nothing or starts
\* the match with the form's rosters, each of six non-empty slots with no
\* jersey number twice among them and the libero: a form with an empty slot or
\* a repeated number starts nothing.
C27_StartOnlyWhenValid ==
    [][(view = "setup" /\ ~isGameActive) =>
          /\ isGameActive' /\ view' = "game"
          /\ ValidRoster(myLineup', myLibero')
          /\ ValidRoster(opLineup', opLibero')]_vars

\* A match started from a form typed over: 9 and 2 at positions 1 and 2 of my
\* team with libero 1, the opponent without a libero and serving first.
C27_Witness ==
    /\ view = "game" /\ isGameActive
    /\ myLineup[1] = "9" /\ myLineup[2] = "2" /\ myLibero = "1"
    /\ opLibero = "" /\ servingTeam = "op"

\* The display name of a side
TeamName(side) == IF side = "me" THEN teamConfig.myName ELSE teamConfig.opName

\* C29: the entries counted for a team are exactly the entries of the ledger
\* whose note is that team's display name; an entry whose note is neither
\* name, such as a manual adjustment, is counted for neither team.
C29_TeamFilterByName ==
    \A side \in Sides :
        LET HasTeamName(l) == l.note = TeamName(side)
        IN getTeamLogs(side) = SelectSeq(logs, HasTeamName)

\* ------------------------------------------------- statistics on any ledger
\* SpecStats resumes a match of Home against Away with any ledger of up to
\* MaxLedger rally entries of Home's player 1, of every action kind and every
\* result, and goes on with manual +1s, Undo and Redo.
StatEntry(action, result) ==
    [setNumber |-> 1, myScore |-> 0, opScore |-> 0,
     playerNumber |-> "1", position |-> 1, action |-> action,
     quality |-> "Normal", result |-> result,
     startCoord |-> <<150, 750>>, endCoord |-> <<600, 150>>,
     note |-> TestFillForm.myName, servingTeam |-> "me"]

StatLedgers ==
    UNION {[1..n -> {StatEntry(a, r) : a \in ActionTypes, r \in ResultTypes}] :
              n \in 0..MaxLedger}

\* Rally entries of Home's players 1, 2 and 3, scoring (an attack point) or
\* not (a dig), in ledgers of up to MaxRanked entries
MaxRanked == 3

RankEntry(player, action, result) ==
    [StatEntry(action, result) EXCEPT !.playerNumber = player]

RankLedgers ==
    UNION {[1..n -> {RankEntry(p, "Attack", "Point") : p \in {"1", "2", "3"}}
                       \cup {RankEntry(p, "Dig", "Normal") : p \in {"1", "2", "3"}}] :
              n \in 0..MaxRanked}

InitStats ==
    /\ view = "game"
    /\ isGameActive = TRUE
    /\ teamConfig = [matchName |-> TestFillForm.matchName,
                     myName |-> TestFillForm.myName, opName |-> TestFillForm.opName]
    /\ currentSet = 1
    /\ mySetWins = 0
    /\ opSetWins = 0
    /\ myLineup = TestFillForm.myLineup
    /\ opLineup = TestFillForm.opLineup
    /\ myRoles = TestFillForm.myRoles
    /\ opRoles = TestFillForm.opRoles
    /\ myLibero = TestFillForm.myLibero
    /\ opLibero = TestFillForm.opLibero
    /\ myScore = 0
    /\ opScore = 0
    /\ servingTeam = TestFillForm.firstServe
    /\ logs \in StatLedgers \cup RankLedgers
    /\ history = <<>>
    /\ future = <<>>
    /\ state = "IDLE"
    /\ activeSide = "me"
    /\ selectedPos = NoPos
    /\ selectedAction = "null"
    /\ startCoord = <<>>
    /\ endCoord = <<>>
    /\ showSubModal = FALSE
    /\ subNumber = ""
    /\ subTarget = <<>>
    /\ longPressTimer = "null"
    /\ isLongPress = FALSE
    /\ timers = <<>>
    /\ held = {}
    /\ startPos = <<>>
    /\ endPos = <<>>
    /\ dragMode = "null"
    /\ localStorage = <<>>

NextStats ==
    \/ \E isMyTeam \in BOOLEAN : handleScoreAdjust(isMyTeam, 1)
    \/ handleUndo
    \/ handleRedo

SpecStats == InitStats /\ [][NextStats]_vars

\* The entries of a list with an action kind of acts and a result of results
CountOf(list, acts, results) ==
    Cardinality({i \in 1..Len(list) :
                    list[i].action \in acts /\ list[i].result \in results})

\* C30: for the whole ledger, for the entries filed under either team and for
\* those of a player, calculateStats gives attackTotal = the Attack entries,
\* attackKills = the Attack entries with result Point, blocks = the Block
\* entries with result Point, serveAces = the Serve entries with result Point,
\* serveErrors = the Serve entries with result Error, digs = the Dig entries
\* and totalPoints = attackKills + blocks + serveAces.
C30_StatsCounts ==
    \A list \in {logs, getTeamLogs("me"), getTeamLogs("op"), getPlayerLogs("1", "me")} :
        LET stats == calculateStats(list)
        IN /\ stats.attackTotal = CountOf(list, {"Attack"}, ResultTypes)
           /\ stats.attackKills = CountOf(list, {"Attack"}, {"Point"})
           /\ stats.blocks = CountOf(list, {"Block"}, {"Point"})
           /\ stats.serveAces = CountOf(list, {"Serve"}, {"Point"})
           /\ stats.serveErrors = CountOf(list, {"Serve"}, {"Error"})
           /\ stats.digs = CountOf(list, {"Dig"}, ResultTypes)
           /\ stats.totalPoints = stats.attackKills + stats.blocks + stats.serveAces
           /\ DOMAIN stats = {"attackKills", "attackTotal", "blocks", "serveAces",
                              "serveErrors", "digs", "totalPoints"}

\* A ledger with a block point, a service ace and the attack point of a manual
\* +1: three total points, one of each kind; Home's own list has two.
C30_Witness ==
    /\ Len(logs) = 3
    /\ calculateStats(logs).blocks = 1
    /\ calculateStats(logs).serveAces = 1
    /\ calculateStats(logs).attackKills = 1
    /\ calculateStats(logs).totalPoints = 3
    /\ calculateStats(getTeamLogs("me")).totalPoints = 2

\* ------------------------------------------------------------ player ranking
\* parseInt of a jersey string of digits; the empty string of a manual entry
\* gives NaN and is not in the table
parseInt(s) ==
    CASE s = "1" -> 1 [] s = "2" -> 2 [] s = "3" -> 3 [] s = "4" -> 4
      [] s = "5" -> 5 [] s = "6" -> 6 [] s = "7" -> 7 [] s = "8" -> 8
      [] s = "9" -> 9 [] s = "11" -> 11 [] s = "12" -> 12 [] s = "13" -> 13
      [] s = "14" -> 14 [] s = "15" -> 15 [] s = "16" -> 16 [] s = "88" -> 88
      [] s = "99" -> 99

\* The orders in which the elements of a set can be listed
Orderings(S) ==
    {f \in [1..Cardinality(S) -> S] : \A i, j \in DOMAIN f : i # j => f[i] # f[j]}

\* activePlayersList of the statistics tab of a side: the distinct player
\* numbers of the team's list in ascending order of parseInt, and the first
\* two of them in a stable sort by descending totalPoints, each kept only
\* with totalPoints > 0. With a manual entry in the list one comparison key is
\* NaN, the comparator is inconsistent and the order of players is whatever
\* the engine's sort leaves: every order is an outcome.
activePlayersList(side) ==
    LET teamLogs == getTeamLogs(side)
        numbers == {teamLogs[i].playerNumber : i \in DOMAIN teamLogs}
        points(p) == calculateStats(getPlayerLogs(p, side)).totalPoints
        Ascending(f) == \A i, j \in DOMAIN f : i < j => parseInt(f[i]) < parseInt(f[j])
        orders == IF "" \in numbers THEN Orderings(numbers)
                  ELSE {f \in Orderings(numbers) : Ascending(f)}
        First(f, taken) ==
            CHOOSE i \in DOMAIN f \ taken :
                \A j \in DOMAIN f \ taken :
                    \/ points(f[j]) < points(f[i])
                    \/ points(f[j]) = points(f[i]) /\ i <= j
        Ranked(f) ==
            LET i1 == First(f, {})
                i2 == First(f, {i1})
            IN [players |-> f,
                top1 |-> IF Len(f) >= 1 /\ points(f[i1]) > 0 THEN f[i1] ELSE "null",
                top2 |-> IF Len(f) >= 2 /\ points(f[i2]) > 0 THEN f[i2] ELSE "null"]
    IN {Ranked(f) : f \in orders}

\* The players of a team: the jersey numbers of the rally entries recorded
\* under the team's name, and the points each of them scored
TeamPlayers(side) ==
    {logs[i].playerNumber : i \in {k \in DOMAIN logs : logs[k].note = TeamName(side)}}

PointsOf(p, side) ==
    Cardinality({i \in DOMAIN logs :
                    /\ logs[i].note = TeamName(side)
                    /\ logs[i].playerNumber = p
                    /\ \/ logs[i].action \in {"Attack", "Serve"} /\ logs[i].result = "Point"
                       \/ logs[i].action = "Block" /\ logs[i].result = "Point"})

\* What C31 says of one ranking of a side
RankingOf(side, r) ==
    /\ r.top1 # "null" =>
          /\ r.top1 \in TeamPlayers(side)
          /\ PointsOf(r.top1, side) > 0
          /\ \A p \in TeamPlayers(side) : PointsOf(p, side) <= PointsOf(r.top1, side)
    /\ r.top2 # "null" =>
          /\ r.top1 # "null"
          /\ r.top2 # r.top1
          /\ r.top2 \in TeamPlayers(side)
          /\ PointsOf(r.top2, side) > 0
          /\ \A p \in TeamPlayers(side) \ {r.top1} :
                PointsOf(p, side) <= PointsOf(r.top2, side)

\* C31: on either team's statistics tab, top1 is a jersey number of the team
\* with the most totalPoints and top2 one with the second most, each given
\* only with totalPoints > 0; top2 is given only with top1, differs from it,
\* and no third player of the team has more totalPoints than top2.
C31_PlayerRanking ==
    \A side \in Sides : \A r \in activePlayersList(side) : RankingOf(side, r)

\* The same of my team's tab alone, where the list holds the team's rally
\* entries and nothing else, and a top1 is given whenever a player scored
C31_MyTeamRanking ==
    \A r \in activePlayersList("me") :
        /\ RankingOf("me", r)
        /\ (\E p \in TeamPlayers("me") : PointsOf(p, "me") > 0) => r.top1 # "null"
        /\ (\E p, q \in TeamPlayers("me") :
               p # q /\ PointsOf(p, "me") > 0 /\ PointsOf(q, "me") > 0) => r.top2 # "null"

\* Three players of my team have scored: both ranks are given
C31_Witness ==
    /\ Cardinality({p \in TeamPlayers("me") : PointsOf(p, "me") > 0}) = 3
    /\ \A r \in activePlayersList("me") : r.top1 # "null" /\ r.top2 # "null"

\* ------------------------------------------------ trajectories of every kind
\* SpecServe drives the rally flow with one pointer, with a serve or an attack
\* picked and with the court touched inside the lines or in the margin that
\* the drawing's viewBox (-1 -0.5 20 10) leaves around them.
ServeActionInputs == {"Serve", "Attack"}
CourtPointInputs == {<<24, 6>>, <<-2, -1>>}

NextServe ==
    \/ startGame(TestFillForm)
    \/ PointerFree /\ \E side \in Sides, pos \in PressPositions : handlePlayerDown(side, pos)
    \/ \E slot \in held : handlePlayerUp(slot[1], slot[2])
    \/ \E action \in ServeActionInputs : handleActionSelect(action)
    \/ cancelFlow
    \/ PointerFree /\ \E pt \in CourtPointInputs : handlePointerDown(pt)
    \/ PointerFree /\ \E pt \in CourtPointInputs : handlePointerMove(pt)
    \/ PointerFree /\ handlePointerUp
    \/ PointerFree /\ \E result \in ResultTypes : handleResult(result)

SpecServe == Init /\ [][NextServe]_vars

\* A Coordinate within 0..100 percent on both axes (ninths of a percent)
InPercentRange(coord) ==
    /\ 0 <= coord[1] /\ coord[1] <= 900
    /\ 0 <= coord[2] /\ coord[2] <= 900

\* C32: every trajectory coordinate stored in a ledger entry lies within
\* 0..100 percent on both axes, for every action kind, Serve included, and
\* for every release point of the court.
C32_CoordinatesInRange ==
    \A i \in DOMAIN logs :
        /\ logs[i].startCoord # <<>> => InPercentRange(logs[i].startCoord)
        /\ logs[i].endCoord # <<>> => InPercentRange(logs[i].endCoord)

\* C33: whenever the interaction state is DRAWING or RESULT_PENDING a position
\* and an action are selected, and in RESULT_PENDING both trajectory
\* coordinates are set as well; a pointer release on the court in particular
\* never leads to RESULT_PENDING without a selected action.
C33_FlowStateData ==
    /\ state \in {"DRAWING", "RESULT_PENDING"} =>
          selectedPos # NoPos /\ selectedAction # "null"
    /\ state = "RESULT_PENDING" => startCoord # <<>> /\ endCoord # <<>>

\* C34: a press on a sidebar slot has one outcome. Released while its timer
\* is pending, it selects the player of the slot and no substitution follows:
\* no timer of the slot stays pending and the dialog is left as it was.
\* Released when its timer has run and opened the dialog for the slot, it
\* selects nothing: the interaction state and the selection are unchanged and
\* the dialog stays open.
C34_PressHasOneOutcome ==
    [][\A slot \in Sides \X (Positions \cup {PosL}) :
          handlePlayerUp(slot[1], slot[2]) =>
              /\ (\E i \in DOMAIN timers : timers[i] = slot) =>
                    /\ state' = "PLAYER_SELECTED"
                    /\ activeSide' = slot[1]
                    /\ selectedPos' = slot[2]
                    /\ \A i \in DOMAIN timers' : timers'[i] # slot
                    /\ UNCHANGED subVars
              /\ (DialogOpen /\ subTarget = slot) =>
                    /\ UNCHANGED flowVars
                    /\ DialogOpen']_vars

\* C35: a manual rotation of one team gives that team's lineup position p from
\* p + 1 and position 6 from 1, and changes nothing else: both scores, the
\* serving team, the ledger, both role mappings, both liberos, the other
\* team's lineup and the set counters are as before.
C35_RotationFrame ==
    [][\A isMyTeam \in BOOLEAN :
          handleRotation(isMyTeam) =>
              LET old == IF isMyTeam THEN myLineup ELSE opLineup
                  new == IF isMyTeam THEN myLineup' ELSE opLineup'
              IN /\ \A p \in 1..5 : new[p] = old[p + 1]
                 /\ new[6] = old[1]
                 /\ isMyTeam => UNCHANGED opLineup
                 /\ ~isMyTeam => UNCHANGED myLineup
                 /\ UNCHANGED <<myScore, opScore, servingTeam, logs, myRoles, opRoles,
                                myLibero, opLibero, currentSet, mySetWins, opSetWins>>]_vars

\* The opponent's lineup has just been rotated in a match with a score, a
\* ledger entry and my team serving.
C35_Witness ==
    /\ history # <<>>
    /\ LET before == Last(history)
       IN /\ opLineup # before.opLineup
          /\ opLineup = getRotatedLineup(before.opLineup)
          /\ myLineup = before.myLineup
          /\ logs = before.logs /\ logs # <<>>
          /\ myScore = before.myScore /\ myScore > 0
          /\ servingTeam = before.servingTeam /\ servingTeam = "me"

\* ------------------------------------------------ the store with saving
\* SpecSave saves and loads in a match started from the setup form or loaded
\* from the file saved earlier, between manual +1s, set advances and returns
\* from setup, Undo and Redo.  A load empties the stacks, so the ledger and
\* the set number could grow without end: a save is taken while they are
\* small.
SaveRoom == Len(logs) <= MaxLedger /\ currentSet <= MaxLedger

NextSave ==
    \/ startGame(TestFillForm)
    \/ handleLoadFile(SavedGameBlob)
    \/ \E isMyTeam \in BOOLEAN : handleScoreAdjust(isMyTeam, 1)
    \/ handleNextSet
    \/ handleResumeGame
    \/ handleUndo
    \/ handleRedo
    \/ SaveRoom /\ handleConfirmSave
    \/ handleLoadSaved

SpecSave == Init /\ [][NextSave]_vars

\* C36: a save changes neither the GameState nor the stacks, and the blob it
\* stores holds the GameState and the team config of the state it was made
\* in; the blob changes by a save only; the load of the blob sets the thirteen
\* fields of the GameState and the team config to the blob's and empties both
\* stacks.
C36_SaveLoadRoundTrip ==
    [][/\ handleConfirmSave =>
             /\ UNCHANGED <<gameVars, teamConfig, history, future>>
             /\ localStorage' # localStorage =>
                   LET saved == JSONParse(localStorage'[1])
                   IN /\ saved.state = <<getCurrentState>>
                      /\ saved.config = <<teamConfig>>
       /\ localStorage' # localStorage => handleConfirmSave
       /\ handleLoadSaved =>
             LET saved == JSONParse(localStorage[1])
             IN /\ getCurrentState' = saved.state[1]
                /\ DOMAIN getCurrentState' = DOMAIN saved.state[1]
                /\ teamConfig' = saved.config[1]
                /\ history' = <<>>
                /\ future' = <<>>]_vars

\* The match saved in its second set with a rally entry and a manual entry
\* has been loaded again: the GameState is the blob's and the stacks, which
\* held the manual adjustment when it was saved, are empty.
C36_Witness ==
    /\ localStorage # <<>>
    /\ getCurrentState = JSONParse(localStorage[1]).state[1]
    /\ currentSet = 2
    /\ Len(logs) = 2
    /\ logs[1] = SavedState.logs[1]
    /\ logs[2].startCoord = <<>>
    /\ history = <<>>
    /\ future = <<>>

\* ------------------------------------------ commits after a changed lineup
\* SpecCommit drives the rally flow with one pointer on slot 1 of my team and
\* on the opponent's libero slot, with substitutions, rotations of my team,
\* manual +1s of the opponent and Undo between the selection and the commit.
NextCommit ==
    \/ startGame(TestFillForm)
    \/ PointerFree /\ \E slot \in SlotInputs : handlePlayerDown(slot[1], slot[2])
    \/ \E slot \in held : handlePlayerUp(slot[1], slot[2])
    \/ longPressTimeout
    \/ ~Pressing /\ \E value \in SubNumberInputs : setSubNumber(value)
    \/ ~Pressing /\ handleSubConfirm
    \/ \E action \in ActionInputs : handleActionSelect(action)
    \/ PointerFree /\ \E pt \in PointInputs : handlePointerDown(pt)
    \/ PointerFree /\ handlePointerUp
    \/ PointerFree /\ \E result \in ResultTypes : handleResult(result)
    \/ PointerFree /\ handleRotation(TRUE)
    \/ PointerFree /\ handleScoreAdjust(FALSE, 1)
    \/ PointerFree /\ handleUndo

SpecCommit == Init /\ [][NextCommit]_vars

\* C37: the playerNumber of the entry a commit appends is the jersey at the
\* selected position of the acting team's lineup (the acting team's libero
\* number for the libero slot) in the state the commit is made in, before the
\* side-out rotation of that commit, whatever substitution, rotation, manual
\* adjustment or Undo came between the selection and the commit.
C37_PlayerNumberAtCommit ==
    [][CommitStep =>
          /\ Len(logs') = Len(logs) + 1
          /\ Last(logs').position = selectedPos
          /\ Last(logs').playerNumber =
                IF selectedPos = PosL THEN LiberoOf(activeSide)
                ELSE LineupOf(activeSide)[selectedPos]]_vars

\* My player at position 1 was selected, then substituted by 7 with a long
\* press (no press has followed it: isLongPress is still set), then the rally
\* was committed: the entry names 7, the jersey at position 1 when the commit
\* was made, and not the jersey selected.
C37_Witness ==
    /\ isLongPress
    /\ Len(history) = 2
    /\ Len(logs) = Len(history[2].logs) + 1
    /\ Last(logs).note = teamConfig.myName
    /\ Last(logs).position = 1
    /\ Last(logs).playerNumber = "7"
    /\ history[1].myLineup[1] # "7"
    /\ history[2].myLineup[1] = "7"

\* A commit of my team with a side-out: the entry names the jersey at position
\* 1 before the rotation of the commit.
C37_WitnessSideOut ==
    /\ Len(history) = 2
    /\ Len(logs) = Len(history[2].logs) + 1
    /\ Last(logs).note = teamConfig.myName
    /\ Last(logs).position = 1
    /\ myLineup = getRotatedLineup(history[2].myLineup)
    /\ Last(logs).playerNumber = history[2].myLineup[1]
    /\ Last(logs).playerNumber # myLineup[1]

\* The same with the opponent's libero slot: the libero selected was replaced
\* by 7 before the commit.
C37_WitnessLibero ==
    /\ isLongPress
    /\ Len(history) = 2
    /\ Len(logs) = Len(history[2].logs) + 1
    /\ Last(logs).note = teamConfig.opName
    /\ Last(logs).position = PosL
    /\ Last(logs).playerNumber = "7"
    /\ history[1].opLibero # "7"
    /\ history[2].opLibero = "7"

\* C38: in a match started from setup, through commits, manual adjustments,
\* substitutions, rotations, set advances, Undo, Redo, match starts and match
\* resets, the scores recorded in the last entry of a non-empty ledger are
\* the current scores, and with an empty ledger both scores are the 0 of the
\* match start.
C38_LedgerTailHoldsScores ==
    IF logs # <<>>
    THEN Last(logs).myScore = myScore /\ Last(logs).opScore = opScore
    ELSE myScore = 0 /\ opScore = 0

\* The second set of a match whose ledger ends with a rally commit of my team
\* for 1-0: the score carried into the set is the one of that entry.
C38_Witness ==
    /\ view = "game"
    /\ currentSet = 2
    /\ Len(logs) = 1
    /\ Last(logs).note = teamConfig.myName
    /\ Last(logs).setNumber = 1
    /\ Last(logs).myScore = 1
    /\ myScore = 1 /\ opScore = 0

\* C39: in a match started from setup the set number is at least 1 and the
\* sets won by the two teams together are at most the sets completed,
\* currentSet - 1, through any mix of set advances, Undo and Redo.
C39_SetWinsBounded ==
    /\ currentSet >= 1
    /\ mySetWins >= 0 /\ opSetWins >= 0
    /\ mySetWins + opSetWins <= currentSet - 1

\* A set advance that credited my team has been undone: the set number and
\* the win went back together, and Redo holds them.
C39_Witness ==
    /\ currentSet = 1
    /\ mySetWins = 0
    /\ future # <<>>
    /\ future[1].currentSet = 2
    /\ future[1].mySetWins = 1

\* ------------------------------------------------ substitutions of any number
\* SpecRoster substitutes by long press on slot 1 of my team and on the
\* opponent's libero slot, typing a number that another player of my team or
\* of the opponent wears, between rotations, Undo and Redo.
RosterNumberInputs == {"2", "16"}

NextRoster ==
    \/ startGame(TestFillForm)
    \/ PointerFree /\ \E slot \in SlotInputs : handlePlayerDown(slot[1], slot[2])
    \/ \E slot \in held : handlePlayerUp(slot[1], slot[2])
    \/ longPressTimeout
    \/ ~Pressing /\ \E value \in RosterNumberInputs : setSubNumber(value)
    \/ ~Pressing /\ cancelSub
    \/ ~Pressing /\ handleSubConfirm
    \/ cancelFlow
    \/ PointerFree /\ \E isMyTeam \in BOOLEAN : handleRotation(isMyTeam)
    \/ PointerFree /\ handleUndo
    \/ PointerFree /\ handleRedo

SpecRoster == Init /\ [][NextRoster]_vars

\* C40: throughout a match, after any substitutions, rotations, commits, Undo
\* and Redo, every lineup slot of both teams is non-empty and no jersey number
\* occurs twice among a team's six lineup slots and its libero.
C40_RosterStaysValid ==
    isGameActive =>
        /\ ValidRoster(myLineup, myLibero)
        /\ ValidRoster(opLineup, opLibero)

\* The part of it that substitutions keep: no slot is ever left empty
C40_NoEmptySlot ==
    isGameActive =>
        \A p \in Positions : myLineup[p] # "" /\ opLineup[p] # ""

====
